---- MODULE Spec2Model ----
(***************************************************************************)
(* Model of stock_skills: the Sharpe-ratio scoring framework              *)
(* (src/core/sharpe.py, specification Spec), the threshold provider        *)
(* (src/core/_thresholds.py, SpecThresholds), the pullback detector        *)
(* (src/core/screening/technicals.py, SpecTechnicals), the screener        *)
(* (src/core/screener.py, SpecScreener), the graph context                 *)
(* (src/data/screening_context.py, SpecContext) and its formatter          *)
(* (src/output/screening_summary_formatter.py, SpecFormat).                *)
(*                                                                         *)
(* Values.  Python's None is the empty tuple.  A number is an exact        *)
(* rational <<n, d>> in lowest terms with d > 0, so 0.25 is <<1, 4>>.  A   *)
(* list is wrapped as <<items>>, which keeps [] apart from None.  A dict   *)
(* is a function whose DOMAIN is the set of keys it holds.                 *)
(***************************************************************************)
EXTENDS Integers, Sequences, FiniteSets, TLC

\* ------------------------------------------------------------------ values

None == <<>>

IsNone(v) == Len(v) = 0

Abs(i) == IF i < 0 THEN 0 - i ELSE i

RECURSIVE GCD(_, _)
GCD(a, b) == IF b = 0 THEN a ELSE GCD(b, a % b)

\* the rational n/d (d # 0) in lowest terms
Rat(n, d) ==
    LET g == GCD(Abs(n), Abs(d))
        s == IF d < 0 THEN 0 - 1 ELSE 1
    IN  <<(s * n) \div g, (s * d) \div g>>

Zero == Rat(0, 1)
One == Rat(1, 1)

RAdd(a, b) == Rat(a[1] * b[2] + b[1] * a[2], a[2] * b[2])
RSub(a, b) == Rat(a[1] * b[2] - b[1] * a[2], a[2] * b[2])
RMul(a, b) == Rat(a[1] * b[1], a[2] * b[2])
\* b # 0: Python raises ZeroDivisionError otherwise, and so does this
RDiv(a, b) == Rat(a[1] * b[2], a[2] * b[1])
RLt(a, b) == a[1] * b[2] < b[1] * a[2]
RLe(a, b) == a[1] * b[2] <= b[1] * a[2]
RMin(a, b) == IF RLt(b, a) THEN b ELSE a

\* Python truthiness of an Optional[float]: None and 0.0 are falsy
Truthy(v) == ~IsNone(v) /\ v[1] # 0

\* Python's `a or b`
Or(a, b) == IF Truthy(a) THEN a ELSE b

\* dict.get(k) and dict.get(k, default)
Get(d, k) == IF k \in DOMAIN d THEN d[k] ELSE None
GetDefault(d, k, default) == IF k \in DOMAIN d THEN d[k] ELSE default

\* {**d, k: v}
Put(d, k, v) == [x \in (DOMAIN d) \cup {k} |-> IF x = k THEN v ELSE d[x]]
Del(d, k) == [x \in (DOMAIN d) \ {k} |-> d[x]]

EmptyDict == [x \in {} |-> None]

List(s) == <<s>>
Items(l) == l[1]

\* ------------------------------------------------------- sharpe.py, numerics

DEFAULT_RF == Rat(5, 1000)

TradingDays == 252
Window30 == 30
Window90 == 90

RECURSIVE ISqrtIn(_, _, _)
ISqrtIn(n, lo, hi) ==
    IF hi - lo <= 1 THEN lo
    ELSE LET mid == (lo + hi) \div 2
         IN  IF mid * mid <= n THEN ISqrtIn(n, mid, hi) ELSE ISqrtIn(n, lo, mid)

\* floor of the square root
ISqrt(n) == ISqrtIn(n, 0, 46341)

\* Close prices are in cents on the geometric grid 100.00 * r^k, k = 0, 1, 2,
\* whose ratio r has ln(r)^2 = 0.0024 (r is about 1.0502); np_log gives the
\* logarithm in units of ln(r), relative to ln(100.00).
np_log(p) == CASE p = 10000 -> 0 [] p = 10502 -> 1 [] p = 11029 -> 2

LogStepSq == Rat(24, 10000)

\* np.diff(np.log(prices))
np_diff_log(prices) ==
    [i \in 1..(Len(prices) - 1) |-> np_log(prices[i + 1]) - np_log(prices[i])]

RECURSIVE SumSeq(_)
SumSeq(s) == IF Len(s) = 0 THEN 0 ELSE s[1] + SumSeq(Tail(s))

\* float(np.std(rs, ddof=1) * np.sqrt(252)) for log returns rs in grid units,
\* Len(rs) >= 2, to two decimal places (rounded down)
AnnualizedStd(rs) ==
    LET n == Len(rs)
        s1 == SumSeq(rs)
        s2 == SumSeq([i \in 1..n |-> rs[i] * rs[i]])
        scale == (LogStepSq[1] * 10000) \div LogStepSq[2]
    IN  Rat(ISqrt(((n * s2 - s1 * s1) * TradingDays * scale) \div (n * (n - 1))), 100)

\* close_prices[-(window + 1):]
LastN(s, n) == SubSeq(s, Len(s) - n + 1, Len(s))

\* variant: a non-positive price anywhere in the list gives None
calculate_hv_all_positive(close_prices, window) ==
    IF Len(close_prices) < window + 1 THEN None
    ELSE IF \E i \in 1..Len(close_prices) : close_prices[i] <= 0 THEN None
    ELSE AnnualizedStd(np_diff_log(LastN(close_prices, window + 1)))

calculate_hv(close_prices, window) ==
    IF Len(close_prices) < window + 1 THEN None
    ELSE LET prices == LastN(close_prices, window + 1)
         IN  IF \E i \in 1..Len(prices) : prices[i] <= 0 THEN None
             ELSE AnnualizedStd(np_diff_log(prices))

\* (upside_vol, downside_vol)
calculate_upside_downside_vol(close_prices, window) ==
    IF Len(close_prices) < window + 1 THEN <<None, None>>
    ELSE LET prices == LastN(close_prices, window + 1)
         IN  IF \E i \in 1..Len(prices) : prices[i] <= 0 THEN <<None, None>>
             ELSE LET log_returns == np_diff_log(prices)
                      up_returns == SelectSeq(log_returns, LAMBDA r : r > 0)
                      down_returns == SelectSeq(log_returns, LAMBDA r : r < 0)
                      upside_vol == IF Len(up_returns) < 2 THEN None
                                    ELSE AnnualizedStd(up_returns)
                      downside_vol == IF Len(down_returns) < 2 THEN None
                                      ELSE AnnualizedStd(down_returns)
                  IN  <<upside_vol, downside_vol>>

calculate_expected_return(eps_growth, dividend_yield, fcf_yield) ==
    LET eg == IF ~IsNone(eps_growth) THEN eps_growth ELSE Zero
        dy == IF ~IsNone(dividend_yield) THEN dividend_yield ELSE Zero
        fy == IF ~IsNone(fcf_yield) THEN fcf_yield ELSE Zero
    IN  RAdd(RAdd(eg, dy), fy)

\* sr = (expected_return - rf) / (hv30 * 0.8)
raw_sharpe(expected_return, rf, hv30) ==
    RDiv(RSub(expected_return, rf), RMul(hv30, Rat(8, 10)))

vol_trend(hv30, hv90) ==
    IF ~IsNone(hv90) /\ RLt(Zero, hv30) THEN RDiv(hv90, hv30) ELSE One

\* variant of asymmetry that forgets the cap at 2.0
asymmetry_uncapped(upside_vol, downside_vol) ==
    IF ~IsNone(upside_vol) /\ ~IsNone(downside_vol) /\ RLt(Zero, downside_vol)
    THEN RDiv(upside_vol, downside_vol)
    ELSE One

asymmetry(upside_vol, downside_vol) ==
    IF ~IsNone(upside_vol) /\ ~IsNone(downside_vol) /\ RLt(Zero, downside_vol)
    THEN RMin(RDiv(upside_vol, downside_vol), Rat(2, 1))
    ELSE One

\* variant of calculate_adjusted_sr that returns 0.0 where hv30 is unusable
calculate_adjusted_sr_zero(expected_return, rf, hv30, hv90, upside_vol, downside_vol) ==
    IF IsNone(hv30) \/ RLe(hv30, Zero) THEN Zero
    ELSE RMul(RMul(raw_sharpe(expected_return, rf, hv30), vol_trend(hv30, hv90)),
              asymmetry(upside_vol, downside_vol))

calculate_adjusted_sr(expected_return, rf, hv30, hv90, upside_vol, downside_vol) ==
    IF IsNone(hv30) \/ RLe(hv30, Zero) THEN None
    ELSE RMul(RMul(raw_sharpe(expected_return, rf, hv30), vol_trend(hv30, hv90)),
              asymmetry(upside_vol, downside_vol))

\* ----------------------------------------------------- sharpe.py, conditions

\* variant: an absent hv30 counts as low volatility
check_low_volatility_absent_passes(hv30, threshold) ==
    IsNone(hv30) \/ RLt(hv30, threshold)

check_low_volatility(hv30, threshold) ==
    IF IsNone(hv30) THEN FALSE ELSE RLt(hv30, threshold)

\* variant of check_undervalued that skips the test of a missing ratio
check_undervalued_lenient(per, pbr, per_max, pbr_max) ==
    /\ IsNone(per) \/ (RLt(Zero, per) /\ RLt(per, per_max))
    /\ IsNone(pbr) \/ (RLt(Zero, pbr) /\ RLt(pbr, pbr_max))

check_undervalued(per, pbr, per_max, pbr_max) ==
    IF IsNone(per) \/ IsNone(pbr) THEN FALSE
    ELSE /\ RLt(Zero, per) /\ RLt(per, per_max)
         /\ RLt(Zero, pbr) /\ RLt(pbr, pbr_max)

\* variant of check_financial_stability that skips the debt check for ebitda <= 0
\* (what the comment at lines 147-148 describes) instead of failing
check_financial_stability_skip(equity_ratio, operating_cf, net_income, fcf, total_debt, ebitda) ==
    IF IsNone(equity_ratio) \/ RLe(equity_ratio, Rat(40, 100)) THEN FALSE
    ELSE IF IsNone(operating_cf) \/ IsNone(net_income) \/ RLe(operating_cf, net_income)
    THEN FALSE
    ELSE IF IsNone(fcf) \/ RLe(fcf, Zero) THEN FALSE
    ELSE IF /\ ~IsNone(ebitda) /\ RLt(Zero, ebitda)
            /\ RLe(Rat(3, 1), RDiv(IF ~IsNone(total_debt) THEN total_debt ELSE Zero, ebitda))
    THEN FALSE
    ELSE TRUE

check_financial_stability(equity_ratio, operating_cf, net_income, fcf, total_debt, ebitda) ==
    IF IsNone(equity_ratio) \/ RLe(equity_ratio, Rat(40, 100)) THEN FALSE
    ELSE IF IsNone(operating_cf) \/ IsNone(net_income) \/ RLe(operating_cf, net_income)
    THEN FALSE
    ELSE IF IsNone(fcf) \/ RLe(fcf, Zero) THEN FALSE
    ELSE IF /\ ~IsNone(ebitda) /\ RLt(Zero, ebitda)
            /\ RLe(Rat(3, 1), RDiv(IF ~IsNone(total_debt) THEN total_debt ELSE Zero, ebitda))
    THEN FALSE
    ELSE IF ~IsNone(ebitda) /\ RLe(ebitda, Zero) THEN FALSE
    ELSE TRUE

check_eps_growth(eps_growth, revenue_growth, roe) ==
    IF IsNone(eps_growth) \/ RLe(eps_growth, Rat(5, 100)) THEN FALSE
    ELSE IF IsNone(revenue_growth) \/ RLe(revenue_growth, Zero) THEN FALSE
    ELSE IF IsNone(roe) \/ RLe(roe, Rat(8, 100)) THEN FALSE
    ELSE TRUE

FourConditions == {"low_volatility", "undervalued", "financial_stability", "eps_growth"}

\* the EPS growth condition 4 reads from the snapshot
condition_eps_growth(stock_detail) ==
    Or(Get(stock_detail, "earningsGrowth"), Get(stock_detail, "eps_growth"))

\* the EPS growth the expected return reads from the snapshot
return_eps_growth(stock_detail) ==
    Or(Get(stock_detail, "eps_growth"), Get(stock_detail, "earnings_growth"))

\* variant of inject_hv30 that keeps an hv30 the caller supplied
inject_hv30_keeps_supplied(stock_detail, computed) ==
    IF ~IsNone(Get(stock_detail, "hv30")) THEN stock_detail
    ELSE Put(stock_detail, "hv30", computed)

\* {**stock_detail, "hv30": hv30}: a new mapping holding the computed hv30
inject_hv30(stock_detail, computed) == Put(stock_detail, "hv30", computed)

\* the details mapping of count_conditions_passed; catalyst is None
condition_details_of(stock_detail, thresholds) ==
    LET hv_threshold == GetDefault(thresholds, "hv_threshold", Rat(25, 100))
        per_max == GetDefault(thresholds, "per_max", Rat(15, 1))
        pbr_max == GetDefault(thresholds, "pbr_max", Rat(15, 10))
        hv30 == Get(stock_detail, "hv30")
        per == Or(Get(stock_detail, "trailingPE"), Get(stock_detail, "per"))
        pbr == Or(Get(stock_detail, "priceToBook"), Get(stock_detail, "pbr"))
        equity_ratio == Get(stock_detail, "equity_ratio")
        operating_cf == Or(Get(stock_detail, "operating_cashflow"),
                           Get(stock_detail, "operatingCashflow"))
        net_income == Or(Or(Get(stock_detail, "net_income_stmt"),
                            Get(stock_detail, "netIncome")),
                         Get(stock_detail, "net_income"))
        fcf == Or(Or(Get(stock_detail, "fcf"), Get(stock_detail, "free_cashflow")),
                  Get(stock_detail, "freeCashflow"))
        total_debt == Or(Get(stock_detail, "total_debt"), Get(stock_detail, "totalDebt"))
        ebitda == Get(stock_detail, "ebitda")
        eps_growth == condition_eps_growth(stock_detail)
        revenue_growth == Or(Get(stock_detail, "revenueGrowth"),
                             Get(stock_detail, "revenue_growth"))
        roe == Or(Get(stock_detail, "returnOnEquity"), Get(stock_detail, "roe"))
    IN  [low_volatility |-> check_low_volatility(hv30, hv_threshold),
         undervalued |-> check_undervalued(per, pbr, per_max, pbr_max),
         financial_stability |->
             check_financial_stability(equity_ratio, operating_cf, net_income, fcf,
                                       total_debt, ebitda),
         eps_growth |-> check_eps_growth(eps_growth, revenue_growth, roe),
         catalyst |-> None]

\* variant of count_conditions_passed that counts every entry that is not False,
\* so that the None of catalyst counts
count_conditions_passed_not_false(stock_detail, thresholds) ==
    LET details == condition_details_of(stock_detail, thresholds)
    IN  <<Cardinality({c \in FourConditions : details[c]}) + 1, details>>

\* (passed, details)
count_conditions_passed(stock_detail, thresholds) ==
    LET details == condition_details_of(stock_detail, thresholds)
    IN  <<Cardinality({c \in FourConditions : details[c]}), details>>

\* variant of calculate_condition_multiplier that admits a count of 2
calculate_condition_multiplier_two(passed_count) ==
    IF passed_count >= 4 THEN One
    ELSE IF passed_count >= 2 THEN Rat(8, 10)
    ELSE None

calculate_condition_multiplier(passed_count) ==
    IF passed_count >= 4 THEN One
    ELSE IF passed_count = 3 THEN Rat(8, 10)
    ELSE None

\* fcf_yield: the provided value, or fcf / market_cap
derive_fcf_yield(stock_detail) ==
    LET provided == Get(stock_detail, "fcf_yield")
    IN  IF IsNone(provided)
        THEN LET fcf == Or(Get(stock_detail, "fcf"), Get(stock_detail, "free_cashflow"))
                 market_cap == Get(stock_detail, "market_cap")
             IN  IF ~IsNone(fcf) /\ ~IsNone(market_cap) /\ RLt(Zero, market_cap)
                 THEN RDiv(fcf, market_cap)
                 ELSE None
        ELSE provided

\* variant of cap_expected_return that leaves the sum uncapped
cap_expected_return_none(expected_return) == expected_return

\* min(expected_return, 1.0)
cap_expected_return(expected_return) == RMin(expected_return, One)

\* variant of final_score_of that takes a missing adjusted_sr for 0.0
final_score_coerced(adjusted_sr, condition_multiplier) ==
    RMul(IF ~IsNone(adjusted_sr) THEN adjusted_sr ELSE Zero, condition_multiplier)

final_score_of(adjusted_sr, condition_multiplier) ==
    IF ~IsNone(adjusted_sr) THEN RMul(adjusted_sr, condition_multiplier) ELSE None

\* compute_full_sharpe_score as one call: raised is TRUE when len(None) raises
\* in calculate_hv; otherwise returned is the result dict, or None when excluded
compute_full_sharpe_score(stock_detail, thresholds, rf) ==
    LET price_history == GetDefault(stock_detail, "price_history", List(<<>>))
    IN  IF IsNone(price_history) THEN [raised |-> TRUE, returned |-> None]
        ELSE
        LET hv30 == calculate_hv(Items(price_history), Window30)
            hv90 == calculate_hv(Items(price_history), Window90)
            vols == calculate_upside_downside_vol(Items(price_history), Window30)
            stock_detail_with_hv == inject_hv30(stock_detail, hv30)
            eps_growth == return_eps_growth(stock_detail)
            dividend_yield == Get(stock_detail, "dividend_yield")
            fcf_yield == derive_fcf_yield(stock_detail)
            expected_return ==
                cap_expected_return(
                    calculate_expected_return(eps_growth, dividend_yield, fcf_yield))
            positive_hv == ~(IsNone(hv30) \/ RLe(hv30, Zero))
            raw_sr == IF positive_hv THEN raw_sharpe(expected_return, rf, hv30) ELSE None
            adjusted_sr ==
                IF positive_hv
                THEN calculate_adjusted_sr(expected_return, rf, hv30, hv90, vols[1], vols[2])
                ELSE None
            counted == count_conditions_passed(stock_detail_with_hv, thresholds)
            condition_multiplier == calculate_condition_multiplier(counted[1])
        IN  IF IsNone(condition_multiplier) THEN [raised |-> FALSE, returned |-> None]
            ELSE [raised |-> FALSE,
                  returned |->
                    [expected_return |-> expected_return, hv30 |-> hv30, hv90 |-> hv90,
                     upside_vol |-> vols[1], downside_vol |-> vols[2],
                     raw_sr |-> raw_sr, adjusted_sr |-> adjusted_sr,
                     conditions_passed |-> counted[1],
                     condition_details |-> counted[2],
                     condition_multiplier |-> condition_multiplier,
                     final_score |-> final_score_of(adjusted_sr, condition_multiplier),
                     fcf_yield |-> fcf_yield, rf |-> rf]]

\* ------------------------------------------------------------------ inputs

\* price histories hold up to Window90 + 1 + MaxExtraBars closes
MaxExtraBars == 1
\* calculate_condition_multiplier is applied to counts in -MaxCount..MaxCount
MaxCount == 6

\* grid levels of the "mixed" history: up moves 2,2,1,1 and down moves 1,1,2,1,1
MixedLevels == <<0, 2, 1, 0, 2, 0, 1, 0, 1>>

GridPrice(level) == CASE level = 0 -> 10000 [] level = 1 -> 10502 [] level = 2 -> 11029

Patterns == {"flat", "step", "zigzag", "mixed", "recentzero", "oldzero"}

\* the close at position i of a history of n closes
PatternPrice(pattern, n, i) ==
    CASE pattern = "flat" -> GridPrice(0)
      [] pattern = "step" -> IF i = n THEN GridPrice(1) ELSE GridPrice(0)
      [] pattern = "zigzag" -> GridPrice(i % 2)
      [] pattern = "mixed" -> GridPrice(MixedLevels[((i - 1) % 9) + 1])
      [] pattern = "recentzero" -> IF i = n - 1 THEN 0 ELSE GridPrice(i % 2)
      [] pattern = "oldzero" -> IF i = 1 THEN 0 - 10000 ELSE GridPrice(i % 2)

History(pattern, n) == [i \in 1..n |-> PatternPrice(pattern, n, i)]

HistoryLengths ==
    {0, 1, Window30, Window30 + 1, Window90, Window90 + 1} \cup
    ((Window90 + 2)..(Window90 + 1 + MaxExtraBars))

Histories == {History(p, n) : p \in Patterns, n \in HistoryLengths}

PerValues == {None, Zero, Rat(10, 1), Rat(15, 1), Rat(20, 1)}
PbrValues == {None, Zero, One, Rat(3, 2), Rat(2, 1)}
EquityValues == {None, Zero, Rat(2, 5), Rat(1, 2)}
CashValues == {None, Zero, Rat(0 - 10, 1), Rat(10, 1), Rat(50, 1), Rat(100, 1)}
DebtValues == {None, Zero, Rat(299, 1), Rat(300, 1)}
EbitdaValues == {None, Zero, Rat(0 - 10, 1), Rat(100, 1)}
GrowthValues == {None, Zero, Rat(0 - 1, 10), Rat(1, 20), Rat(2, 25), Rat(1, 10), Rat(6, 10)}
YieldValues == {None, Zero, Rat(0 - 1, 20), Rat(3, 100), Rat(6, 10)}
CapValues == {None, Zero, Rat(0 - 1000, 1), Rat(1000, 1)}
VolValues == {None, Zero, Rat(0 - 1, 10), Rat(1, 10), Rat(1, 5), Rat(1, 2)}

PerKeys == {"trailingPE", "per"}
PbrKeys == {"priceToBook", "pbr"}
CashKeys == {"operating_cashflow", "operatingCashflow", "net_income_stmt", "netIncome",
             "net_income", "fcf", "free_cashflow", "freeCashflow"}
DebtKeys == {"total_debt", "totalDebt"}
GrowthKeys == {"earningsGrowth", "eps_growth", "earnings_growth", "revenueGrowth",
               "revenue_growth", "returnOnEquity", "roe"}
YieldKeys == {"dividend_yield", "fcf_yield"}

Keys ==
    PerKeys \cup PbrKeys \cup CashKeys \cup DebtKeys \cup GrowthKeys \cup YieldKeys \cup
    {"equity_ratio", "ebitda", "market_cap", "hv30", "price_history"}

\* the values a key of the snapshot may hold
ValuesOf(k) ==
    CASE k \in PerKeys -> PerValues
      [] k \in PbrKeys -> PbrValues
      [] k \in CashKeys -> CashValues
      [] k \in DebtKeys -> DebtValues
      [] k \in GrowthKeys -> GrowthValues
      [] k \in YieldKeys -> YieldValues
      [] k = "equity_ratio" -> EquityValues
      [] k = "ebitda" -> EbitdaValues
      [] k = "market_cap" -> CapValues
      [] k = "hv30" -> VolValues
      [] k = "price_history" -> {None} \cup {List(h) : h \in Histories}

\* a snapshot on which all four conditions pass
AllPass ==
    [per |-> Rat(10, 1), pbr |-> One, equity_ratio |-> Rat(1, 2),
     operating_cashflow |-> Rat(100, 1), net_income |-> Rat(50, 1), fcf |-> Rat(10, 1),
     total_debt |-> Zero, ebitda |-> Rat(100, 1), eps_growth |-> Rat(1, 10),
     revenue_growth |-> Rat(1, 10), roe |-> Rat(1, 10), dividend_yield |-> Rat(3, 100),
     market_cap |-> Rat(1000, 1), price_history |-> List(History("step", Window90 + 1))]

Without(d, ks) == [x \in (DOMAIN d) \ ks |-> d[x]]

VolFields == {"price_history"}
ValuationFields == {"per", "pbr"}
StabilityFields == {"equity_ratio", "operating_cashflow", "net_income", "fcf",
                    "total_debt", "ebitda"}
GrowthFields == {"eps_growth", "revenue_growth", "roe"}

Bases ==
    {AllPass,
     Put(AllPass, "dividend_yield", Rat(6, 10)),
     Without(AllPass, VolFields),
     Without(AllPass, ValuationFields),
     Without(AllPass, StabilityFields),
     Without(AllPass, GrowthFields),
     Without(AllPass, VolFields \cup ValuationFields),
     Without(AllPass, StabilityFields \cup GrowthFields),
     EmptyDict}

\* a base snapshot, or one with a single key set, replaced or removed
Snapshots ==
    Bases \cup UNION {{Put(b, k, v) : b \in Bases, v \in ValuesOf(k)} : k \in Keys}
          \cup {Del(b, k) : b \in Bases, k \in Keys}

ThresholdSets ==
    {EmptyDict,
     [hv30_max |-> Rat(25, 100), per_max |-> Rat(15, 1), pbr_max |-> Rat(15, 10)],
     [hv_threshold |-> Rat(10, 100), per_max |-> Rat(12, 1), pbr_max |-> One]}

RiskFreeRates == {DEFAULT_RF, Rat(2, 100)}

\* ------------------------------------------------------------------- state

VARIABLES
    pc,                  \* position: "idle", a step of compute_full_sharpe_score, "done"
    fn,                  \* the function that was called
    args,                \* the arguments of a helper called on its own
    ret,                 \* the value returned
    outcome,             \* "running", "result", "absent" or "raised"
    stock_detail, thresholds, rf,
    hv30, hv90, upside_vol, downside_vol, stock_detail_with_hv,
    eps_growth, dividend_yield, fcf_yield, expected_return,
    raw_sr, adjusted_sr,
    conditions_passed, condition_details, condition_multiplier

inputVars == <<stock_detail, thresholds, rf>>
volVars == <<hv30, hv90, upside_vol, downside_vol, stock_detail_with_hv>>
returnVars == <<eps_growth, dividend_yield, fcf_yield>>
srVars == <<raw_sr, adjusted_sr>>
condVars == <<conditions_passed, condition_details, condition_multiplier>>
localVars == <<volVars, returnVars, expected_return, srVars, condVars>>

sharpeVars == <<pc, fn, args, ret, outcome, inputVars, localVars>>

\* state of _thresholds.py and of the tasks that call th()
VARIABLES
    resource,            \* what config/thresholds.yaml is: missing, unreadable, malformed or a document
    _THRESHOLDS,         \* the module-level cache
    reads,               \* how many times the resource has been opened
    task_pc,             \* per task: where it is inside th()/get_thresholds()
    task_call,           \* per task: the (section, key, default) of its th() call
    task_loaded,         \* per task: the object its load produced, not yet assigned
    task_ret             \* per task: the value th() returned

providerVars == <<resource, _THRESHOLDS, reads, task_pc, task_call, task_loaded, task_ret>>

\* state of one call of detect_pullback_in_uptrend (technicals.py)
VARIABLES
    tech_pc,             \* "idle", "start", "conditions", "scan" or "done"
    tech_outcome,        \* "running", "report" or "raised"
    hist,                \* the argument: Close and Volume columns
    current_price, current_sma50, current_sma200,
    rsi_series, volume_ratio, recent_high, pullback_pct,
    uptrend, is_pullback,
    params,              \* the locals _pb_min .. _bounce_min, by threshold key
    bounce_score, bounce_details,
    offset,              \* the loop variable of the 5-day scan
    report               \* the dict returned

indicatorVars == <<current_price, current_sma50, current_sma200, rsi_series,
                   volume_ratio, recent_high, pullback_pct, uptrend>>
scanVars == <<bounce_score, bounce_details, offset>>
techVars == <<tech_pc, tech_outcome, hist, indicatorVars, is_pullback, params,
              scanVars, report>>

\* everything sharpe.py never touches
\* state of one call of SharpeScreener.screen (screener.py)
VARIABLES
    screen_pc,           \* "idle", "setup", "loop", "sort" or "done"
    screen_outcome,      \* "running", "returned" or "raised"
    symbols,             \* the argument: the symbols to screen
    top_n,               \* the argument: how many entries to return
    yahoo_client,        \* the data client: symbol -> detail dict or None
    market_thresholds,   \* the dict market.get_thresholds() returns
    screen_rf,           \* the local rf
    position,            \* how many symbols the loop has processed
    results,             \* the local list of result entries
    screen_ret           \* the list returned

screenVars == <<screen_pc, screen_outcome, symbols, top_n, yahoo_client, market_thresholds,
                screen_rf, position, results, screen_ret>>

\* state of one call of get_screening_graph_context (screening_context.py)
VARIABLES
    context_pc,          \* "idle", "import", "sectors", "notes", "themes", "return" or "done"
    context_outcome,     \* "running", "returned" or "raised"
    context_symbols,     \* the argument symbols
    sectors,             \* the argument sectors
    graph,               \* the graph_query module: importable or not, and what its helpers do
    sector_index,        \* how many sectors the loop has processed
    result,              \* the local result dict
    calls,               \* the helper calls made so far, in order
    context_ret          \* the dict returned

contextVars == <<context_pc, context_outcome, context_symbols, sectors, graph,
                 sector_index, result, calls, context_ret>>

\* state of the callers of the scoring engine and of the screening output
\* screening_summary_formatter.py, format_screening_summary
VARIABLES
    format_pc,           \* "idle", "open", "sectors", "themes", "notes", "summary", "return" or "done"
    context,             \* the context argument
    llm_text,            \* the llm_text argument
    lines,               \* the list of output lines
    format_ret           \* the string returned

formatVars == <<format_pc, context, llm_text, lines, format_ret>>

callerVars == <<screenVars, contextVars, formatVars>>

outsideSharpe == <<providerVars, techVars, callerVars>>

vars == <<sharpeVars, providerVars, techVars, callerVars>>

\* ------------------------------------------------- _thresholds.py, objects

\* Python objects yaml.safe_load can hand back, tagged with their type
PyNone == [kind |-> "NoneType", value |-> <<>>]
PyDict(d) == [kind |-> "dict", value |-> d]
PyList(s) == [kind |-> "list", value |-> s]
PyFloat(r) == [kind |-> "float", value |-> r]

\* truthiness of an object, as the `or` of line 25 tests it
PyTruthy(o) ==
    CASE o.kind = "NoneType" -> FALSE
      [] o.kind = "dict" -> DOMAIN o.value # {}
      [] o.kind = "list" -> Len(o.value) > 0
      [] o.kind = "float" -> o.value[1] # 0

PyOr(a, b) == IF PyTruthy(a) THEN a ELSE b

\* config/thresholds.yaml: absent, not readable, not parseable, or a document
Missing == [kind |-> "missing", value |-> PyNone]
Unreadable == [kind |-> "unreadable", value |-> PyNone]
Malformed == [kind |-> "malformed", value |-> PyNone]
Document(o) == [kind |-> "document", value |-> o]

\* variant: a failed load leaves None behind
load_keeps_none(r) ==
    IF r.kind = "document" THEN PyOr(r.value, PyDict(EmptyDict)) ELSE PyNone

\* what the try/except of get_thresholds assigns to _THRESHOLDS: open() raises
\* for a missing or unreadable file and safe_load for a malformed one, and
\* `except Exception` turns each of them into {}
load(r) ==
    IF r.kind = "document" THEN PyOr(r.value, PyDict(EmptyDict)) ELSE PyDict(EmptyDict)

\* the outcome of a call: an exception or a value
AttributeError == [raised |-> TRUE, value |-> None]
Ok(v) == [raised |-> FALSE, value |-> v]

\* th(section, key, default) once get_thresholds() has returned config:
\* config.get(section, {}).get(key, default); only a dict has .get
th(config, section, key, default) ==
    IF config.kind # "dict" THEN AttributeError
    ELSE LET body == GetDefault(config.value, section, PyDict(EmptyDict))
         IN  IF body.kind # "dict" THEN AttributeError
             ELSE Ok(GetDefault(body.value, key, default))

\* documents the resource can hold
Documents ==
    { PyNone,                                                   \* empty document
      PyDict(EmptyDict),                                        \* {}
      PyList(<<One>>),                                          \* a top-level sequence
      PyFloat(Zero),                                            \* the scalar 0
      PyDict([s \in {"health"} |->
                 PyDict([k \in {"rsi_drop_threshold"} |-> Rat(35, 1)])]),
      PyDict([s \in {"technicals"} |-> PyNone]),                \* `technicals:` with no body
      PyDict([s \in {"technicals"} |-> PyDict(EmptyDict)]),     \* `technicals: {}`
      PyDict([s \in {"technicals"} |->
                 PyDict([k \in {"pullback_min"} |-> Rat(0 - 15, 100)])]) }

Resources == {Missing, Unreadable, Malformed} \cup {Document(o) : o \in Documents}

\* the lookups tasks make: <<section, key, default>>
ThCalls ==
    { <<"technicals", "pullback_min", Rat(0 - 20, 100)>>,
      <<"technicals", "pullback_max", Rat(0 - 5, 100)>>,
      <<"health", "rsi_drop_threshold", Rat(40, 1)>> }

MaxTasks == 2
Tasks == 1..MaxTasks
MaxReads == 3

\* a fresh process: nothing loaded, no task inside th()
ProviderStart(r) ==
    /\ resource = r
    /\ _THRESHOLDS = PyNone
    /\ reads = 0
    /\ task_pc = [t \in Tasks |-> "idle"]
    /\ task_call = [t \in Tasks |-> <<>>]
    /\ task_loaded = [t \in Tasks |-> PyNone]
    /\ task_ret = [t \in Tasks |-> None]

\* a fresh call of detect_pullback_in_uptrend
TechStart ==
    /\ tech_pc = "idle"
    /\ tech_outcome = "running"
    /\ hist = [Close |-> <<>>, Volume |-> <<>>]
    /\ current_price = None /\ current_sma50 = None /\ current_sma200 = None
    /\ rsi_series = <<>>
    /\ volume_ratio = None /\ recent_high = None /\ pullback_pct = None
    /\ uptrend = FALSE /\ is_pullback = FALSE
    /\ params = <<>>
    /\ bounce_score = None
    /\ bounce_details = <<>>
    /\ offset = 0
    /\ report = <<>>

\* -------------------------------------------------------------- sharpe.py, state

SharpeStart ==
    /\ pc = "idle"
    /\ fn = "none"
    /\ args = <<>>
    /\ ret = None
    /\ outcome = "running"
    /\ stock_detail = EmptyDict
    /\ thresholds = EmptyDict
    /\ rf = DEFAULT_RF
    /\ hv30 = None /\ hv90 = None /\ upside_vol = None /\ downside_vol = None
    /\ stock_detail_with_hv = EmptyDict
    /\ eps_growth = None /\ dividend_yield = None /\ fcf_yield = None
    /\ expected_return = None
    /\ raw_sr = None /\ adjusted_sr = None
    /\ conditions_passed = None /\ condition_details = None /\ condition_multiplier = None

\* before a call of SharpeScreener.screen
ScreenStart ==
    /\ screen_pc = "idle"
    /\ screen_outcome = "running"
    /\ symbols = <<>>
    /\ top_n = 0
    /\ yahoo_client = <<>>
    /\ market_thresholds = EmptyDict
    /\ screen_rf = None
    /\ position = 0
    /\ results = <<>>
    /\ screen_ret = <<>>

\* the dict of lines 37-42 and 54-59
empty_context ==
    [sector_research |-> EmptyDict, symbol_notes |-> EmptyDict,
     symbol_themes |-> EmptyDict, has_data |-> FALSE]

\* before a call of get_screening_graph_context
ContextStart ==
    /\ context_pc = "idle"
    /\ context_outcome = "running"
    /\ context_symbols = <<>>
    /\ sectors = <<>>
    /\ graph = <<>>
    /\ sector_index = 0
    /\ result = empty_context
    /\ calls = <<>>
    /\ context_ret = <<>>

\* before a call of format_screening_summary
FormatStart ==
    /\ format_pc = "idle"
    /\ context = EmptyDict
    /\ llm_text = <<>>
    /\ lines = <<>>
    /\ format_ret = <<>>

CallerStart == ScreenStart /\ ContextStart /\ FormatStart

Init == SharpeStart /\ ProviderStart(Missing) /\ TechStart /\ CallerStart

\* ------------------------------------------------- compute_full_sharpe_score

Call ==
    /\ pc = "idle"
    /\ \E sd \in Snapshots, t \in ThresholdSets, r \in RiskFreeRates :
        /\ stock_detail' = sd
        /\ thresholds' = t
        /\ rf' = r
    /\ fn' = "compute_full_sharpe_score"
    /\ pc' = "step1"
    /\ UNCHANGED outsideSharpe
    /\ UNCHANGED <<args, ret, outcome, localVars>>

\* Step 1: volatility.  len(None) raises TypeError in calculate_hv.
Step1 ==
    /\ pc = "step1"
    /\ LET price_history == GetDefault(stock_detail, "price_history", List(<<>>))
       IN  \/ /\ IsNone(price_history)
              /\ outcome' = "raised"
              /\ pc' = "done"
              /\ UNCHANGED volVars
           \/ /\ ~IsNone(price_history)
              /\ hv30' = calculate_hv(Items(price_history), Window30)
              /\ hv90' = calculate_hv(Items(price_history), Window90)
              /\ LET vols == calculate_upside_downside_vol(Items(price_history), Window30)
                 IN  /\ upside_vol' = vols[1]
                     /\ downside_vol' = vols[2]
              /\ stock_detail_with_hv' = inject_hv30(stock_detail, hv30')
              /\ pc' = "step2"
              /\ UNCHANGED outcome
    /\ UNCHANGED outsideSharpe
    /\ UNCHANGED <<fn, args, ret, inputVars, returnVars, expected_return, srVars, condVars>>

\* Step 2: expected return
Step2 ==
    /\ pc = "step2"
    /\ eps_growth' = return_eps_growth(stock_detail)
    /\ dividend_yield' = Get(stock_detail, "dividend_yield")
    /\ fcf_yield' = derive_fcf_yield(stock_detail)
    /\ expected_return' = calculate_expected_return(eps_growth', dividend_yield', fcf_yield')
    /\ pc' = "step7"
    /\ UNCHANGED outsideSharpe
    /\ UNCHANGED <<fn, args, ret, outcome, inputVars, volVars, srVars, condVars>>

\* Step 7 (early): cap expected_return at 1.0
Step7 ==
    /\ pc = "step7"
    /\ expected_return' = cap_expected_return(expected_return)
    /\ pc' = "step3"
    /\ UNCHANGED outsideSharpe
    /\ UNCHANGED <<fn, args, ret, outcome, inputVars, volVars, returnVars, srVars, condVars>>

\* Step 3: adjusted Sharpe ratio
Step3 ==
    /\ pc = "step3"
    /\ IF IsNone(hv30) \/ RLe(hv30, Zero)
       THEN /\ raw_sr' = None
            /\ adjusted_sr' = None
       ELSE /\ raw_sr' = raw_sharpe(expected_return, rf, hv30)
            /\ adjusted_sr' = calculate_adjusted_sr(expected_return, rf, hv30, hv90,
                                                    upside_vol, downside_vol)
    /\ pc' = "step4"
    /\ UNCHANGED outsideSharpe
    /\ UNCHANGED <<fn, args, ret, outcome, inputVars, volVars, returnVars, expected_return,
                   condVars>>

\* Step 4: conditions
Step4 ==
    /\ pc = "step4"
    /\ LET counted == count_conditions_passed(stock_detail_with_hv, thresholds)
       IN  /\ conditions_passed' = counted[1]
           /\ condition_details' = counted[2]
    /\ condition_multiplier' = calculate_condition_multiplier(conditions_passed')
    /\ pc' = "step5"
    /\ UNCHANGED outsideSharpe
    /\ UNCHANGED <<fn, args, ret, outcome, inputVars, volVars, returnVars, expected_return,
                   srVars>>

\* Step 5: exclude if the multiplier is None; Step 6: final score and result
Step5 ==
    /\ pc = "step5"
    /\ \/ /\ IsNone(condition_multiplier)
          /\ ret' = None
          /\ outcome' = "absent"
       \/ /\ ~IsNone(condition_multiplier)
          /\ ret' = [expected_return |-> expected_return, hv30 |-> hv30, hv90 |-> hv90,
                     upside_vol |-> upside_vol, downside_vol |-> downside_vol,
                     raw_sr |-> raw_sr, adjusted_sr |-> adjusted_sr,
                     conditions_passed |-> conditions_passed,
                     condition_details |-> condition_details,
                     condition_multiplier |-> condition_multiplier,
                     final_score |-> final_score_of(adjusted_sr, condition_multiplier),
                     fcf_yield |-> fcf_yield, rf |-> rf]
          /\ outcome' = "result"
    /\ pc' = "done"
    /\ UNCHANGED outsideSharpe
    /\ UNCHANGED <<fn, args, inputVars, localVars>>

\* ------------------------------------------------- helpers called on their own

\* a helper f applied to arguments a returns r
Returns(f, a, r) ==
    /\ fn' = f
    /\ args' = a
    /\ ret' = r
    /\ outcome' = "result"
    /\ pc' = "done"
    /\ UNCHANGED outsideSharpe
    /\ UNCHANGED <<inputVars, localVars>>

CallConditionMultiplier ==
    /\ pc = "idle"
    /\ \E c \in (0 - MaxCount)..MaxCount :
           Returns("calculate_condition_multiplier", <<c>>, calculate_condition_multiplier(c))

CallExpectedReturn ==
    /\ pc = "idle"
    /\ \E eg \in GrowthValues, dy \in YieldValues, fy \in YieldValues :
           Returns("calculate_expected_return", <<eg, dy, fy>>,
                   calculate_expected_return(eg, dy, fy))

ReturnValues == {Zero, Rat(0 - 1, 10), Rat(14, 100), One}

CallAdjustedSr ==
    /\ pc = "idle"
    /\ \E er \in ReturnValues, r \in RiskFreeRates, h30 \in VolValues,
          h90 \in VolValues \ {Rat(0 - 1, 10)}, up \in VolValues \ {Rat(0 - 1, 10)},
          down \in VolValues :
           Returns("calculate_adjusted_sr", <<er, r, h30, h90, up, down>>,
                   calculate_adjusted_sr(er, r, h30, h90, up, down))

CallLowVolatility ==
    /\ pc = "idle"
    /\ \E h \in VolValues, t \in {Rat(25, 100), Rat(10, 100)} :
           Returns("check_low_volatility", <<h, t>>, check_low_volatility(h, t))

CallUndervalued ==
    /\ pc = "idle"
    /\ \E per \in PerValues, pbr \in PbrValues,
          per_max \in {Rat(15, 1), Rat(12, 1)}, pbr_max \in {Rat(15, 10), One} :
           Returns("check_undervalued", <<per, pbr, per_max, pbr_max>>,
                   check_undervalued(per, pbr, per_max, pbr_max))

CallFinancialStability ==
    /\ pc = "idle"
    /\ \E er \in EquityValues, ocf \in CashValues, ni \in CashValues \ {Rat(10, 1)},
          fcf \in {None, Zero, Rat(0 - 10, 1), Rat(10, 1)}, td \in DebtValues,
          eb \in EbitdaValues :
           Returns("check_financial_stability", <<er, ocf, ni, fcf, td, eb>>,
                   check_financial_stability(er, ocf, ni, fcf, td, eb))

CallEpsGrowth ==
    /\ pc = "idle"
    /\ \E eg \in GrowthValues, rg \in GrowthValues, roe \in GrowthValues :
           Returns("check_eps_growth", <<eg, rg, roe>>, check_eps_growth(eg, rg, roe))

CallHv ==
    /\ pc = "idle"
    /\ \E close_prices \in Histories, window \in {Window30, Window90} :
           Returns("calculate_hv", <<close_prices, window>>,
                   calculate_hv(close_prices, window))

Next ==
    \/ Call \/ Step1 \/ Step2 \/ Step7 \/ Step3 \/ Step4 \/ Step5
    \/ CallConditionMultiplier
    \/ CallExpectedReturn
    \/ CallAdjustedSr
    \/ CallLowVolatility
    \/ CallUndervalued
    \/ CallFinancialStability
    \/ CallEpsGrowth
    \/ CallHv

Spec == Init /\ [][Next]_vars

\* ------------------------------------------------- _thresholds.py, th()

\* a task calls th(section, key, default)
CallTh(t) ==
    /\ task_pc[t] \in {"idle", "returned", "raised"}
    /\ \E c \in ThCalls : task_call' = [task_call EXCEPT ![t] = c]
    /\ task_ret' = [task_ret EXCEPT ![t] = None]
    /\ task_pc' = [task_pc EXCEPT ![t] = "check"]
    /\ UNCHANGED <<resource, _THRESHOLDS, reads, task_loaded, sharpeVars, techVars, callerVars>>

\* line 21: if _THRESHOLDS is None
CheckCache(t) ==
    /\ task_pc[t] = "check"
    /\ task_pc' = [task_pc EXCEPT ![t] = IF _THRESHOLDS = PyNone THEN "load" ELSE "lookup"]
    /\ UNCHANGED <<resource, _THRESHOLDS, reads, task_call, task_loaded, task_ret, sharpeVars, techVars, callerVars>>

\* lines 22-27, right-hand sides: open the resource and parse it, or catch
LoadResource(t) ==
    /\ task_pc[t] = "load"
    /\ reads < MaxReads
    /\ reads' = reads + 1
    /\ task_loaded' = [task_loaded EXCEPT ![t] = load(resource)]
    /\ task_pc' = [task_pc EXCEPT ![t] = "store"]
    /\ UNCHANGED <<resource, _THRESHOLDS, task_call, task_ret, sharpeVars, techVars, callerVars>>

\* lines 25 and 27: the assignment to the global
StoreCache(t) ==
    /\ task_pc[t] = "store"
    /\ _THRESHOLDS' = task_loaded[t]
    /\ task_pc' = [task_pc EXCEPT ![t] = "lookup"]
    /\ UNCHANGED <<resource, reads, task_call, task_loaded, task_ret, sharpeVars, techVars, callerVars>>

\* lines 28 and 33: return _THRESHOLDS, then .get(section, {}).get(key, default)
Lookup(t) ==
    /\ task_pc[t] = "lookup"
    /\ LET r == th(_THRESHOLDS, task_call[t][1], task_call[t][2], task_call[t][3])
       IN  \/ /\ r.raised
              /\ task_pc' = [task_pc EXCEPT ![t] = "raised"]
              /\ UNCHANGED task_ret
           \/ /\ ~r.raised
              /\ task_pc' = [task_pc EXCEPT ![t] = "returned"]
              /\ task_ret' = [task_ret EXCEPT ![t] = r.value]
    /\ UNCHANGED <<resource, _THRESHOLDS, reads, task_call, task_loaded, sharpeVars, techVars, callerVars>>

InitThresholds ==
    SharpeStart /\ (\E r \in Resources : ProviderStart(r)) /\ TechStart /\ CallerStart

NextThresholds ==
    \E t \in Tasks :
        \/ CallTh(t)
        \/ CheckCache(t)
        \/ LoadResource(t)
        \/ StoreCache(t)
        \/ Lookup(t)

SpecThresholds == InitThresholds /\ [][NextThresholds]_vars

\* --------------------------------------------- technicals.py, float values

\* float("nan") and float("inf"), next to the rationals <<n, d>> with d > 0
NaN == <<0, 0>>
Inf == <<1, 0>>

\* np.isnan
IsNaN(v) == v[1] = 0 /\ v[2] = 0

\* float comparisons: every comparison with nan is false
FLt(a, b) == ~IsNaN(a) /\ ~IsNaN(b) /\ RLt(a, b)
FLe(a, b) == ~IsNaN(a) /\ ~IsNaN(b) /\ RLe(a, b)

\* numpy float division: x / 0.0 is inf for x > 0 and nan for x = 0
np_divide(a, b) ==
    IF b = 0 THEN (IF a = 0 THEN NaN ELSE Inf) ELSE Rat(a, b)

Pow10(n) == CASE n = 2 -> 100 [] n = 4 -> 10000

\* round(x, ndigits): to the nearest multiple of 10^-ndigits, ties to even;
\* nan stays nan
round(x, ndigits) ==
    IF IsNaN(x) THEN NaN
    ELSE LET q == x[1] * Pow10(ndigits)
             fl == q \div x[2]
             rem == q - fl * x[2]
             up == \/ 2 * rem > x[2]
                   \/ (2 * rem = x[2] /\ fl % 2 = 1)
         IN  Rat(IF up THEN fl + 1 ELSE fl, Pow10(ndigits))

RECURSIVE SumRange(_, _, _)
\* x[lo] + ... + x[hi], by halves
SumRange(x, lo, hi) ==
    IF lo > hi THEN 0
    ELSE IF lo = hi THEN x[lo]
    ELSE LET mid == (lo + hi) \div 2
         IN  SumRange(x, lo, mid) + SumRange(x, mid + 1, hi)

RECURSIVE MaxRange(_, _, _)
\* max(x[lo], ..., x[hi]), by halves
MaxRange(x, lo, hi) ==
    IF lo = hi THEN x[lo]
    ELSE LET mid == (lo + hi) \div 2
             a == MaxRange(x, lo, mid)
             b == MaxRange(x, mid + 1, hi)
         IN  IF a > b THEN a ELSE b

\* series.rolling(window).mean() at position i (1-based): nan before the
\* window is full
rolling_mean(x, window, i) ==
    IF i < window THEN NaN ELSE Rat(SumRange(x, i - window + 1, i), window)

\* series.rolling(window).std() at position i: the sample standard deviation
\* (ddof = 1) of the window, in hundredths, the square root rounded down
rolling_std(x, window, i) ==
    IF i < window THEN NaN
    ELSE LET d == [k \in 1..window |-> x[i - window + k] - x[i]]
             sq == [k \in 1..window |-> d[k] * d[k]]
             s1 == SumRange(d, 1, window)
             num == window * SumRange(sq, 1, window) - s1 * s1
             g == GCD(10000, window * (window - 1))
         IN  Rat(ISqrt((num * (10000 \div g)) \div ((window * (window - 1)) \div g)), 100)

\* --------------------------------------------------- technicals.py, compute_rsi

Positive(i) == IF i > 0 THEN i ELSE 0

\* delta = close.diff(); delta.where(delta > 0, 0.0): the first delta is nan
\* and becomes 0.0
gain(close) ==
    [i \in 1..Len(close) |-> IF i = 1 THEN 0 ELSE Positive(close[i] - close[i - 1])]

loss(close) ==
    [i \in 1..Len(close) |-> IF i = 1 THEN 0 ELSE Positive(close[i - 1] - close[i])]

\* smoothed averages are kept in thousandths of a price unit
AvgScale == 1000

\* a / b rounded up (a >= 0, b > 0): a smoothed average that has become
\* positive stays positive, as it does in floating point
CeilDiv(a, b) == (a + b - 1) \div b

\* one step of the smoothing: y[i] = (1 - alpha) * y[i-1] + alpha * x[i] with
\* alpha = 1/period, and y[1] = x[1]
ewm_step(y, xi, period) ==
    IF Len(y) = 0 THEN <<xi * AvgScale>>
    ELSE Append(y, CeilDiv((period - 1) * y[Len(y)] + xi * AvgScale, period))

RECURSIVE ewm_fold(_, _, _, _, _)
\* the averages y extended over x[lo..hi], by halves (the left half is
\* evaluated before the right half starts)
ewm_fold(y, x, lo, hi, period) ==
    IF lo > hi THEN y
    ELSE IF lo = hi THEN ewm_step(y, x[lo], period)
    ELSE LET mid == (lo + hi) \div 2
             left == ewm_fold(y, x, lo, mid, period)
         IN  IF Len(left) > 0 THEN ewm_fold(left, x, mid + 1, hi, period) ELSE left

\* x.ewm(alpha=1/period, adjust=False).mean() for the first n values
ewm_mean(x, n, period) == ewm_fold(<<>>, x, 1, n, period)

\* 100.0 - (100.0 / (1.0 + rs)) with rs = avg_gain / avg_loss
rsi_of(avg_gain, avg_loss) ==
    LET rs == np_divide(avg_gain, avg_loss)
    IN  IF IsNaN(rs) THEN NaN
        ELSE IF rs = Inf THEN Rat(100, 1)
        ELSE RSub(Rat(100, 1), RDiv(Rat(100, 1), RAdd(One, rs)))

\* min_periods=period: nan at the first period - 1 positions
compute_rsi(close, period) ==
    LET avg_gain == ewm_mean(gain(close), Len(close), period)
        avg_loss == ewm_mean(loss(close), Len(close), period)
    IN  [i \in 1..Len(close) |->
            IF i < period THEN NaN ELSE rsi_of(avg_gain[i], avg_loss[i])]

\* the lower band of compute_bollinger_bands at position i
lower_band(close, period, std_dev, i) ==
    IF i < period THEN NaN
    ELSE RSub(rolling_mean(close, period, i),
              RMul(std_dev, rolling_std(close, period, i)))

\* ------------------------------------ technicals.py, detect_pullback_in_uptrend

MinBars == 200
SmaShort == 50
SmaLong == 200
RsiPeriod == 14
VolShort == 5
VolLong == 20
HighWindow == 60
BbPeriod == 20
lookback == 5

NoFlags ==
    [rsi_reversal |-> FALSE, rsi_depth_bonus |-> FALSE, bb_proximity |-> FALSE,
     volume_surge |-> FALSE, price_reversal |-> FALSE]

Flags == {"rsi_reversal", "rsi_depth_bonus", "bb_proximity", "volume_surge", "price_reversal"}

\* variant: the flags of the day are dropped
WithLookbackDay_no_flags(details, day) ==
    [rsi_reversal |-> FALSE, rsi_depth_bonus |-> FALSE, bb_proximity |-> FALSE,
     volume_surge |-> FALSE, price_reversal |-> FALSE, lookback_day |-> day]

\* {**day_details, "lookback_day": offset}
WithLookbackDay(details, day) ==
    [rsi_reversal |-> details.rsi_reversal, rsi_depth_bonus |-> details.rsi_depth_bonus,
     bb_proximity |-> details.bb_proximity, volume_surge |-> details.volume_surge,
     price_reversal |-> details.price_reversal, lookback_day |-> day]

\* variant: the price fields of the default are 0.0
default_report_zero_prices ==
    [uptrend |-> FALSE, is_pullback |-> FALSE, pullback_pct |-> Zero,
     bounce_signal |-> FALSE, bounce_score |-> Zero,
     bounce_details |-> WithLookbackDay(NoFlags, 0),
     rsi |-> NaN, volume_ratio |-> NaN, sma50 |-> Zero, sma200 |-> Zero,
     current_price |-> Zero, recent_high |-> Zero, all_conditions |-> FALSE]

\* the result for insufficient data
default_report ==
    [uptrend |-> FALSE, is_pullback |-> FALSE, pullback_pct |-> Zero,
     bounce_signal |-> FALSE, bounce_score |-> Zero,
     bounce_details |-> WithLookbackDay(NoFlags, 0),
     rsi |-> NaN, volume_ratio |-> NaN, sma50 |-> NaN, sma200 |-> NaN,
     current_price |-> NaN, recent_high |-> NaN, all_conditions |-> FALSE]

\* the th("technicals", key, default) lookups of lines 110-132
ParamDefaults ==
    [pullback_min |-> Rat(0 - 20, 100), pullback_max |-> Rat(0 - 5, 100),
     rsi_reversal_lo |-> Rat(25, 1), rsi_reversal_hi |-> Rat(50, 1),
     rsi_depth_lo |-> Rat(25, 1), rsi_depth_hi |-> Rat(35, 1),
     bb_proximity_mult |-> Rat(102, 100), volume_surge_ratio |-> Rat(12, 10),
     score_rsi_reversal |-> Rat(40, 1), score_rsi_depth |-> Rat(15, 1),
     score_bb_proximity |-> Rat(25, 1), score_volume_surge |-> Rat(10, 1),
     score_price_reversal |-> Rat(10, 1), bounce_signal_min |-> Rat(40, 1)]

\* variant: the configuration is ignored
LookedUp_defaults(config) == ParamDefaults

\* the locals _pb_min .. _bounce_min once every lookup has returned
LookedUp(config) ==
    [k \in DOMAIN ParamDefaults |-> th(config, "technicals", k, ParamDefaults[k]).value]

\* mean of x[lo..hi] (a pandas slice mean)
MeanRange(x, lo, hi) == Rat(SumRange(x, lo, hi), hi - lo + 1)

\* volume ratio of the day at position i: 5-day mean over 20-day mean
day_volume_ratio_at(volume, i) ==
    LET day_vol_5 == MeanRange(volume, IF i - 4 > 1 THEN i - 4 ELSE 1, i)
        day_vol_20 == MeanRange(volume, IF i - 19 > 1 THEN i - 19 ELSE 1, i)
    IN  IF RLt(Zero, day_vol_20) THEN RDiv(day_vol_5, day_vol_20) ELSE NaN

\* the five sub-conditions of the day `back` bars before the last one
day_details_of(close, volume, rsi, p, back) ==
    LET i == Len(close) - back
        has_prev == back + 2 < Len(close)
        day_rsi == rsi[i]
        day_prev_rsi == IF has_prev THEN rsi[i - 1] ELSE NaN
        day_close == Rat(close[i], 1)
        day_prev_close == IF has_prev THEN Rat(close[i - 1], 1) ELSE NaN
        day_lower == lower_band(close, BbPeriod, Rat(2, 1), i)
        day_volume_ratio == day_volume_ratio_at(volume, i)
    IN  [rsi_reversal |->
             /\ FLe(p.rsi_reversal_lo, day_rsi) /\ FLe(day_rsi, p.rsi_reversal_hi)
             /\ ~IsNaN(day_prev_rsi)
             /\ FLt(day_prev_rsi, day_rsi),
         rsi_depth_bonus |->
             FLe(p.rsi_depth_lo, day_rsi) /\ FLe(day_rsi, p.rsi_depth_hi),
         bb_proximity |->
             /\ ~IsNaN(day_lower)
             /\ FLt(Zero, day_lower)
             /\ FLe(day_close, RMul(day_lower, p.bb_proximity_mult)),
         volume_surge |->
             ~IsNaN(day_volume_ratio) /\ FLt(p.volume_surge_ratio, day_volume_ratio),
         price_reversal |->
             ~IsNaN(day_prev_close) /\ FLt(day_prev_close, day_close)]

Points(flag, p) ==
    CASE flag = "rsi_reversal" -> p.score_rsi_reversal
      [] flag = "rsi_depth_bonus" -> p.score_rsi_depth
      [] flag = "bb_proximity" -> p.score_bb_proximity
      [] flag = "volume_surge" -> p.score_volume_surge
      [] flag = "price_reversal" -> p.score_price_reversal

Earned(details, flag, p) == IF details[flag] THEN Points(flag, p) ELSE Zero

\* day_score: the points of the sub-conditions that hold on the day
day_score_of(details, p) ==
    RAdd(RAdd(RAdd(RAdd(Earned(details, "rsi_reversal", p),
                        Earned(details, "rsi_depth_bonus", p)),
                   Earned(details, "bb_proximity", p)),
              Earned(details, "volume_surge", p)),
         Earned(details, "price_reversal", p))

\* ------------------------------------------------- technicals.py, input series

RECURSIVE Extend(_, _)
\* a series continued by the given day-to-day changes
Extend(series, changes) ==
    IF Len(changes) = 0 THEN series
    ELSE Extend(Append(series, series[Len(series)] + changes[1]), Tail(changes))

\* a rising market: +2, -1, +2, -1, ... from start
Sawtooth(n, start) ==
    [i \in 1..n |-> start + (i - 1) \div 2 + (IF i % 2 = 0 THEN 2 ELSE 0)]

\* a falling market: -2, +1, -2, +1, ... from start
Falling(n, start) ==
    [i \in 1..n |-> start - (i - 1) \div 2 - (IF i % 2 = 0 THEN 2 ELSE 0)]

Constant(n, v) == [i \in 1..n |-> v]

\* the last 8 bars: 5 days of decline (or none), then 3 days up or down
Declines ==
    { <<0 - 3, 0 - 3, 0 - 3, 0 - 3, 0 - 3>>, <<0 - 2, 0 - 2, 0 - 2, 0 - 2, 0 - 2>>,
      <<2, 0 - 1, 2, 0 - 1, 2>> }

Moves == {0 - 3, 1}
Recoveries == {<<a, b, c>> : a \in Moves, b \in Moves, c \in Moves}

Crash == <<0 - 12, 0 - 12, 0 - 12, 0 - 12, 0 - 12, 1, 1, 1>>

TailBars == 8

\* first close of the rising market that starts lower
LowStart == 69

\* Close columns of n bars: a rising market that ends in one of the tails or
\* in a crash, a falling market, and constant prices of 100 and of 0
CloseSeries(n) ==
    IF n < MinBars THEN {Sawtooth(n, 100)}
    ELSE {Extend(Sawtooth(n - TailBars, 100), d \o r) : d \in Declines, r \in Recoveries}
         \cup {Extend(Sawtooth(n - TailBars, 100), Crash)}
         \cup {Extend(Falling(n - TailBars, 400), <<2, 0 - 1, 2, 0 - 1, 2>> \o r) :
                   r \in {<<1, 1, 1>>, <<0 - 3, 0 - 3, 1>>}}
         \cup {Constant(n, 100), Constant(n, 0)}
         \cup {Extend(Sawtooth(n - TailBars, LowStart),
                      <<0 - 3, 0 - 3, 0 - 3, 0 - 3, 0 - 3, 1, 1, 0 - 3>>)}

\* Volume columns of n bars: steady, three heavy days at the end, no trading
VolumeSeries(n) ==
    { Constant(n, 100),
      [i \in 1..n |-> IF i > n - 3 THEN 300 ELSE 100],
      Constant(n, 0) }

TechLengths == {0, 1, MinBars - 1} \cup (MinBars..(MinBars + MaxExtraBars))

\* threshold files: none, one with more points and narrower bounds, one that
\* switches the volume points off, one whose technicals section has no body
HeavyTechnicals ==
    PyDict([s \in {"technicals"} |->
        PyDict([k \in {"pullback_min", "pullback_max", "score_rsi_reversal",
                       "bounce_signal_min"} |->
                   CASE k = "pullback_min" -> Rat(0 - 15, 100)
                     [] k = "pullback_max" -> Rat(0 - 7, 100)
                     [] k = "score_rsi_reversal" -> Rat(50, 1)
                     [] k = "bounce_signal_min" -> Rat(50, 1)])])

NoVolumePoints ==
    PyDict([s \in {"technicals"} |->
        PyDict([k \in {"score_volume_surge"} |-> Zero])])

\* pullback_min between two depths that round to the same 4 places
TightPullbackMin ==
    PyDict([s \in {"technicals"} |->
        PyDict([k \in {"pullback_min"} |-> Rat(0 - 964, 10000)])])

\* a pullback interval above 0
PositivePullback ==
    PyDict([s \in {"technicals"} |->
        PyDict([k \in {"pullback_min", "pullback_max"} |->
                   IF k = "pullback_min" THEN Rat(1, 100) ELSE Rat(10, 100)])])

TechResources ==
    { Missing, Document(HeavyTechnicals), Document(NoVolumePoints),
      Document(TightPullbackMin), Document(PositivePullback),
      Document(PyDict([s \in {"technicals"} |-> PyNone])) }

\* ------------------------------------------------- technicals.py, the call

\* variant: the high of the 60 bars before the current one
recent_high_before_last(close) ==
    MaxRange(close, Len(close) - HighWindow, Len(close) - 1)

\* close.iloc[-60:].max(): the high of the last 60 bars, the current one included
recent_high_of(close) == MaxRange(close, Len(close) - HighWindow + 1, Len(close))

\* variant: the pullback depth is compared after rounding to 4 places
is_pullback_of_rounded(p, pct, price, sma200) ==
    /\ FLe(p.pullback_min, round(pct, 4))
    /\ FLe(round(pct, 4), p.pullback_max)
    /\ FLt(sma200, price)

\* lines 112-115: the pullback depth lies in the closed interval and the
\* price is above the 200-day average
is_pullback_of(p, pct, price, sma200) ==
    /\ FLe(p.pullback_min, pct)
    /\ FLe(pct, p.pullback_max)
    /\ FLt(sma200, price)

\* detect_pullback_in_uptrend(hist) is called
TechCall ==
    /\ tech_pc = "idle"
    /\ \E n \in TechLengths :
           \E close \in CloseSeries(n), volume \in VolumeSeries(n) :
               hist' = [Close |-> close, Volume |-> volume]
    /\ tech_pc' = "start"
    /\ UNCHANGED <<tech_outcome, indicatorVars, is_pullback, params, scanVars, report>>
    /\ UNCHANGED <<sharpeVars, providerVars, callerVars>>

\* lines 79-80: too few bars
TechDefault ==
    /\ tech_pc = "start"
    /\ Len(hist.Close) < MinBars
    /\ report' = default_report
    /\ tech_outcome' = "report"
    /\ tech_pc' = "done"
    /\ UNCHANGED <<hist, indicatorVars, is_pullback, params, scanVars>>
    /\ UNCHANGED <<sharpeVars, providerVars, callerVars>>

\* lines 83-107: moving averages, RSI, volume ratio, recent high, uptrend
TechIndicators ==
    /\ tech_pc = "start"
    /\ Len(hist.Close) >= MinBars
    /\ LET close == hist.Close
           volume == hist.Volume
           n == Len(close)
           vol_5 == rolling_mean(volume, VolShort, n)
           vol_20 == rolling_mean(volume, VolLong, n)
           high == recent_high_of(close)
           price == Rat(close[n], 1)
           sma50 == rolling_mean(close, SmaShort, n)
           sma200 == rolling_mean(close, SmaLong, n)
       IN  /\ current_price' = price
           /\ current_sma50' = sma50
           /\ current_sma200' = sma200
           /\ rsi_series' = compute_rsi(close, RsiPeriod)
           /\ volume_ratio' = IF FLt(Zero, vol_20) THEN RDiv(vol_5, vol_20) ELSE NaN
           /\ recent_high' = Rat(high, 1)
           /\ pullback_pct' = IF high > 0 THEN Rat(close[n] - high, high) ELSE Zero
           /\ uptrend' = (FLt(sma200, price) /\ FLt(sma200, sma50))
    /\ tech_pc' = "conditions"
    /\ UNCHANGED <<tech_outcome, hist, is_pullback, params, scanVars, report>>
    /\ UNCHANGED <<sharpeVars, providerVars, callerVars>>

\* lines 110-142: the threshold lookups (the first one loads the
\* configuration), the pullback condition, and the start of the scan
TechConditions ==
    /\ tech_pc = "conditions"
    /\ LET config == IF _THRESHOLDS = PyNone THEN load(resource) ELSE _THRESHOLDS
           first == th(config, "technicals", "pullback_min", ParamDefaults.pullback_min)
           p == LookedUp(config)
       IN  /\ _THRESHOLDS' = config
           /\ reads' = IF _THRESHOLDS = PyNone THEN reads + 1 ELSE reads
           /\ \/ /\ first.raised
                 /\ tech_outcome' = "raised"
                 /\ tech_pc' = "done"
                 /\ UNCHANGED <<is_pullback, params, scanVars>>
              \/ /\ ~first.raised
                 /\ params' = p
                 /\ is_pullback' = is_pullback_of(p, pullback_pct, current_price,
                                                  current_sma200)
                 /\ bounce_score' = Zero
                 /\ bounce_details' = WithLookbackDay(NoFlags, 0)
                 /\ offset' = 0
                 /\ tech_pc' = "scan"
                 /\ UNCHANGED tech_outcome
    /\ UNCHANGED <<hist, indicatorVars, report>>
    /\ UNCHANGED <<sharpeVars, callerVars, resource, task_pc, task_call, task_loaded, task_ret>>

\* variant: a day that ties with the best replaces it
replaces_best_on_tie(day_score, best) == RLe(best, day_score)

\* line 201: if day_score > bounce_score
replaces_best(day_score, best) == RLt(best, day_score)

\* the scan goes on: range(lookback) is not exhausted and line 146 does not break
Scanning ==
    /\ offset < lookback
    /\ ~(offset + 1 >= Len(hist.Close) \/ offset + 1 >= Len(rsi_series))

\* lines 144-203: one iteration of the scan
TechScan ==
    /\ tech_pc = "scan"
    /\ Scanning
    /\ LET day_details == day_details_of(hist.Close, hist.Volume, rsi_series, params, offset)
           day_score == day_score_of(day_details, params)
       IN  \/ /\ replaces_best(day_score, bounce_score)
              /\ bounce_score' = day_score
              /\ bounce_details' = WithLookbackDay(day_details, offset)
           \/ /\ ~replaces_best(day_score, bounce_score)
              /\ UNCHANGED <<bounce_score, bounce_details>>
    /\ offset' = offset + 1
    /\ UNCHANGED <<tech_pc, tech_outcome, hist, indicatorVars, is_pullback, params, report>>
    /\ UNCHANGED <<sharpeVars, providerVars, callerVars>>

\* lines 205-223: signal, all_conditions and the rounded report
TechReport ==
    /\ tech_pc = "scan"
    /\ ~Scanning
    /\ LET bounce_signal == RLe(params.bounce_signal_min, bounce_score)
           all_conditions == uptrend /\ is_pullback /\ bounce_signal
       IN  report' =
               [uptrend |-> uptrend, is_pullback |-> is_pullback,
                pullback_pct |-> round(pullback_pct, 4),
                bounce_signal |-> bounce_signal,
                bounce_score |-> round(bounce_score, 2),
                bounce_details |-> bounce_details,
                rsi |-> round(rsi_series[Len(rsi_series)], 2),
                volume_ratio |-> IF ~IsNaN(volume_ratio) THEN round(volume_ratio, 4)
                                 ELSE NaN,
                sma50 |-> round(current_sma50, 2),
                sma200 |-> round(current_sma200, 2),
                current_price |-> round(current_price, 2),
                recent_high |-> round(recent_high, 2),
                all_conditions |-> all_conditions]
    /\ tech_outcome' = "report"
    /\ tech_pc' = "done"
    /\ UNCHANGED <<hist, indicatorVars, is_pullback, params, scanVars>>
    /\ UNCHANGED <<sharpeVars, providerVars, callerVars>>

InitTechnicals ==
    /\ SharpeStart
    /\ \E r \in TechResources : ProviderStart(r)
    /\ TechStart
    /\ CallerStart

NextTechnicals ==
    \/ TechCall
    \/ TechDefault
    \/ TechIndicators
    \/ TechConditions
    \/ TechScan
    \/ TechReport

SpecTechnicals == InitTechnicals /\ [][NextTechnicals]_vars

\* ------------------------------------------------- screener.py, SharpeScreener

\* screen is given up to MaxSymbols symbols
MaxSymbols == 3
DefaultTopN == 20

SymbolNames == [i \in 1..(MaxSymbols + 1) |-> <<"S", i>>]

\* the lists <<S1>>, <<S1, S2>>, ... of n symbols
SymbolList(n) == [i \in 1..n |-> SymbolNames[i]]

\* what get_stock_detail may return: None, a snapshot with 31 closes passing all
\* four conditions (Listed), the same with a higher yield, one passing three conditions, one
\* passing three with no price history, and one passing two
Listed == Put(AllPass, "price_history", List(History("step", Window30 + 1)))

DetailOptions ==
    { None,
      Listed,
      Put(Listed, "dividend_yield", Rat(6, 10)),
      Without(Listed, ValuationFields),
      Without(Listed, VolFields),
      Without(Listed, StabilityFields \cup GrowthFields) }

\* the threshold sets a market may hold
MarketThresholds ==
    { EmptyDict,
      [hv_threshold |-> Rat(10, 100), per_max |-> Rat(12, 1), pbr_max |-> One],
      [rf |-> Rat(2, 100), hv30_max |-> Rat(1, 2)] }

TopNs == {1, 2, DefaultTopN}

\* the market's default symbols
get_default_symbols == SymbolList(2)

\* lines 131-133: the SR framework's own thresholds, written into the dict
framework_thresholds(market_set) ==
    Put(Put(Put(market_set, "hv30_max", Rat(25, 100)), "per_max", Rat(15, 1)),
        "pbr_max", Rat(15, 10))

\* lines 146-161: the entry appended for a symbol
result_entry(symbol, detail, sr_result) ==
    [symbol |-> GetDefault(detail, "symbol", symbol),
     name |-> Get(detail, "name"),
     price |-> Get(detail, "price"),
     per |-> Get(detail, "per"),
     pbr |-> Get(detail, "pbr"),
     dividend_yield |-> Get(detail, "dividend_yield"),
     roe |-> Get(detail, "roe"),
     eps_growth |-> Get(detail, "eps_growth"),
     hv30 |-> sr_result.hv30,
     expected_return |-> sr_result.expected_return,
     adjusted_sr |-> sr_result.adjusted_sr,
     conditions_passed |-> sr_result.conditions_passed,
     condition_details |-> sr_result.condition_details,
     final_score |-> sr_result.final_score]

\* list.sort compares the keys of a list of two or more entries; None < x
\* raises TypeError
sort_raises(entries) ==
    Len(entries) >= 2 /\ \E i \in 1..Len(entries) : IsNone(entries[i].final_score)

\* where a stable descending sort puts x: behind every entry whose key is not smaller
RECURSIVE insert_descending(_, _)
insert_descending(sorted, x) ==
    IF Len(sorted) = 0 THEN <<x>>
    ELSE IF RLt(sorted[1].final_score, x.final_score) THEN <<x>> \o sorted
    ELSE <<sorted[1]>> \o insert_descending(Tail(sorted), x)

RECURSIVE sort_descending(_)
\* results.sort(key=lambda r: r["final_score"], reverse=True) when no key is None
sort_descending(entries) ==
    IF Len(entries) <= 1 THEN entries
    ELSE insert_descending(sort_descending(SubSeq(entries, 1, Len(entries) - 1)),
                           entries[Len(entries)])

\* results[:top_n] for top_n >= 0
first_n(entries, n) == SubSeq(entries, 1, IF n < Len(entries) THEN n ELSE Len(entries))

\* screen(symbols, top_n) is called; symbols may be None
ScreenCall ==
    /\ screen_pc = "idle"
    /\ \E arg \in {None} \cup {List(SymbolList(n)) : n \in 0..MaxSymbols},
          t \in MarketThresholds, n \in TopNs :
        /\ symbols' = IF IsNone(arg) THEN get_default_symbols ELSE Items(arg)
        /\ \E client \in [{symbols'[i] : i \in 1..Len(symbols')} -> DetailOptions] :
               yahoo_client' = client
        /\ market_thresholds' = t
        /\ top_n' = n
    /\ screen_pc' = "setup"
    /\ UNCHANGED <<screen_outcome, screen_rf, position, results, screen_ret>>
    /\ UNCHANGED <<sharpeVars, providerVars, techVars, contextVars, formatVars>>

\* lines 129-136: the market's thresholds with the framework's values, and rf
ScreenSetup ==
    /\ screen_pc = "setup"
    /\ market_thresholds' = framework_thresholds(market_thresholds)
    /\ screen_rf' = GetDefault(market_thresholds', "rf", DEFAULT_RF)
    /\ results' = <<>>
    /\ position' = 0
    /\ screen_pc' = "loop"
    /\ UNCHANGED <<screen_outcome, symbols, top_n, yahoo_client, screen_ret>>
    /\ UNCHANGED <<sharpeVars, providerVars, techVars, contextVars, formatVars>>

\* lines 138-161: one iteration of the loop over the symbols
ScreenSymbol ==
    /\ screen_pc = "loop"
    /\ position < Len(symbols)
    /\ LET symbol == symbols[position + 1]
           detail == yahoo_client[symbol]
       IN  \/ /\ detail = None
              /\ UNCHANGED results
           \/ /\ detail # None
              /\ LET sr_result ==
                         compute_full_sharpe_score(detail, market_thresholds, screen_rf).returned
                 IN  \/ /\ sr_result = None
                        /\ UNCHANGED results
                     \/ /\ sr_result # None
                        /\ results' = Append(results, result_entry(symbol, detail, sr_result))
    /\ position' = position + 1
    /\ UNCHANGED <<screen_pc, screen_outcome, symbols, top_n, yahoo_client,
                   market_thresholds, screen_rf, screen_ret>>
    /\ UNCHANGED <<sharpeVars, providerVars, techVars, contextVars, formatVars>>

\* lines 163-164: sort by final_score, descending, and return the first top_n
ScreenReturn ==
    /\ screen_pc = "loop"
    /\ position = Len(symbols)
    /\ \/ /\ sort_raises(results)
          /\ screen_outcome' = "raised"
          /\ UNCHANGED <<results, screen_ret>>
       \/ /\ ~sort_raises(results)
          /\ results' = sort_descending(results)
          /\ screen_ret' = first_n(results', top_n)
          /\ screen_outcome' = "returned"
    /\ screen_pc' = "done"
    /\ UNCHANGED <<symbols, top_n, yahoo_client, market_thresholds, screen_rf, position>>
    /\ UNCHANGED <<sharpeVars, providerVars, techVars, contextVars, formatVars>>

InitScreener ==
    SharpeStart /\ ProviderStart(Missing) /\ TechStart /\ CallerStart

NextScreener ==
    \/ ScreenCall
    \/ ScreenSetup
    \/ ScreenSymbol
    \/ ScreenReturn

SpecScreener == InitScreener /\ [][NextScreener]_vars

\* ------------------------------ screening_context.py, get_screening_graph_context

\* the sectors argument holds up to MaxSectors entries
MaxSectors == 2

\* a str is the tuple of its text, so that "" and None differ and compare
PyStr(text) == <<text>>

\* `not sector`: None or the empty string
Falsy(sector) == sector = None \/ sector = PyStr("")

SectorNames == {PyStr("Technology"), PyStr("BadSector")}
SectorValues == SectorNames \cup {None, PyStr("")}

\* what the two sector helpers do for one sector: raise, or return a value
Raises == [kind |-> "raise", value |-> <<>>]
Gives(v) == [kind |-> "value", value |-> v]
\* a catalysts reply that is a dict, and one that is not
CatalystDict(pos, neg) == [isdict |-> TRUE, positive |-> pos, negative |-> neg]
NotADict == [isdict |-> FALSE, positive |-> <<>>, negative |-> <<>>]

\* research items: with a summary, with an empty summary, without the key
WithSummary == [summary |-> PyStr("ok"), date |-> PyStr("2026-02-01")]
EmptySummary == [summary |-> PyStr("")]
NoSummary == [date |-> PyStr("2026-02-01")]

SectorBehaviours ==
    { [research |-> Raises, catalysts |-> Gives(CatalystDict(<<"x">>, <<>>))],
      [research |-> Gives(<<WithSummary>>), catalysts |-> Raises],
      [research |-> Gives(<<NoSummary, WithSummary>>), catalysts |-> Gives(CatalystDict(<<>>, <<>>))],
      [research |-> Gives(<<>>), catalysts |-> Gives(CatalystDict(<<>>, <<"y">>))],
      [research |-> Gives(<<EmptySummary, NoSummary>>), catalysts |-> Gives(NotADict)],
      [research |-> Gives(<<>>), catalysts |-> Gives(CatalystDict(<<>>, <<>>))] }

\* what a batch helper does: raise, return {} or return data for the symbol
BatchBehaviours(data) ==
    { Raises, Gives(EmptyDict), Gives([s \in {PyStr("NVDA")} |-> data]) }

SymbolLists == { <<>>, <<PyStr("NVDA")>> }

SectorLists == UNION {[1..n -> SectorValues] : n \in 0..MaxSectors}

\* the graph_query modules: one that cannot be imported, and the importable
\* ones with a behaviour for each sector name asked about
Graphs(asked) ==
    { [importable |-> FALSE, sector |-> <<>>, notes |-> Raises, themes |-> Raises] }
    \cup
    { [importable |-> TRUE, sector |-> b, notes |-> n, themes |-> t] :
          b \in [asked -> SectorBehaviours],
          n \in BatchBehaviours(<<[type |-> PyStr("concern")]>>),
          t \in BatchBehaviours(<<"AI">>) }

\* lines 69-71: the truthy summaries
RECURSIVE summaries_of(_)
summaries_of(research) ==
    IF Len(research) = 0 THEN <<>>
    ELSE LET r == research[1]
             summary == Get(r, "summary")
         IN  (IF summary # None /\ ~Falsy(summary) THEN <<summary>> ELSE <<>>)
                 \o summaries_of(Tail(research))

\* lines 72-73: catalysts.get(side, []) if isinstance(catalysts, dict) else []
catalysts_of(catalysts, side) == IF catalysts.isdict THEN catalysts[side] ELSE <<>>

\* variant of sector_entry_found that keeps an entry for every sector answered
sector_entry_found_always(summaries, cats_pos, cats_neg) == TRUE

\* line 75: if summaries or cats_pos or cats_neg
sector_entry_found(summaries, cats_pos, cats_neg) ==
    Len(summaries) > 0 \/ Len(cats_pos) > 0 \/ Len(cats_neg) > 0

\* variant of continue_after that gives up the remaining sectors
abandon_after(index) == Len(sectors)

\* lines 82-83: except Exception: continue, on to the next sector
continue_after(index) == index + 1

\* get_screening_graph_context(symbols, sectors) is called
ContextCall ==
    /\ context_pc = "idle"
    /\ \E syms \in SymbolLists, secs \in SectorLists :
        /\ context_symbols' = syms
        /\ sectors' = secs
        /\ \E g \in Graphs({secs[i] : i \in 1..Len(secs)} \cap SectorNames) : graph' = g
    /\ context_pc' = "import"
    /\ UNCHANGED <<context_outcome, sector_index, result, calls, context_ret>>
    /\ UNCHANGED <<sharpeVars, providerVars, techVars, screenVars, formatVars>>

\* lines 44-59: the import; ImportError returns the empty context
ContextImport ==
    /\ context_pc = "import"
    /\ \/ /\ ~graph.importable
          /\ context_ret' = empty_context
          /\ context_outcome' = "returned"
          /\ context_pc' = "done"
          /\ UNCHANGED result
       \/ /\ graph.importable
          /\ result' = empty_context
          /\ context_pc' = "sectors"
          /\ UNCHANGED <<context_outcome, context_ret>>
    /\ UNCHANGED <<context_symbols, sectors, graph, sector_index, calls>>
    /\ UNCHANGED <<sharpeVars, providerVars, techVars, screenVars, formatVars>>

\* lines 62-83: one iteration of the loop over the sectors
ContextSector ==
    /\ context_pc = "sectors"
    /\ sector_index < Len(sectors)
    /\ LET sector == sectors[sector_index + 1]
       IN  \/ /\ Falsy(sector)
              /\ UNCHANGED <<result, calls>>
              /\ sector_index' = sector_index + 1
           \/ /\ ~Falsy(sector)
              /\ graph.sector[sector].research.kind = "raise"
              /\ calls' = Append(calls, <<"research", sector>>)
              /\ sector_index' = continue_after(sector_index)
              /\ UNCHANGED result
           \/ /\ ~Falsy(sector)
              /\ graph.sector[sector].research.kind = "value"
              /\ graph.sector[sector].catalysts.kind = "raise"
              /\ calls' = calls \o <<(<<"research", sector>>), (<<"catalysts", sector>>)>>
              /\ sector_index' = continue_after(sector_index)
              /\ UNCHANGED result
           \/ /\ ~Falsy(sector)
              /\ graph.sector[sector].research.kind = "value"
              /\ graph.sector[sector].catalysts.kind = "value"
              /\ calls' = calls \o <<(<<"research", sector>>), (<<"catalysts", sector>>)>>
              /\ LET summaries == summaries_of(graph.sector[sector].research.value)
                     catalysts == graph.sector[sector].catalysts.value
                     cats_pos == catalysts_of(catalysts, "positive")
                     cats_neg == catalysts_of(catalysts, "negative")
                 IN  IF sector_entry_found(summaries, cats_pos, cats_neg)
                     THEN result' =
                            [result EXCEPT
                                !.sector_research =
                                    Put(result.sector_research, sector,
                                        [summaries |-> summaries,
                                         catalysts_pos |-> cats_pos,
                                         catalysts_neg |-> cats_neg]),
                                !.has_data = TRUE]
                     ELSE UNCHANGED result
              /\ sector_index' = sector_index + 1
    /\ UNCHANGED <<context_pc, context_outcome, context_symbols, sectors, graph, context_ret>>
    /\ UNCHANGED <<sharpeVars, providerVars, techVars, screenVars, formatVars>>

\* the loop over the sectors is exhausted
ContextSectorsDone ==
    /\ context_pc = "sectors"
    /\ sector_index = Len(sectors)
    /\ context_pc' = "notes"
    /\ UNCHANGED <<context_outcome, context_symbols, sectors, graph, sector_index, result,
                   calls, context_ret>>
    /\ UNCHANGED <<sharpeVars, providerVars, techVars, screenVars, formatVars>>

\* lines 86-95 (field symbol_notes) and 98-105 (field symbol_themes): a batch
\* lookup, made only for a non-empty symbols list
BatchLookup(helper, field, next_pc) ==
    /\ \/ /\ Len(context_symbols) = 0
          /\ UNCHANGED <<result, calls>>
       \/ /\ Len(context_symbols) > 0
          /\ graph[helper].kind = "raise"
          /\ calls' = Append(calls, <<helper, context_symbols>>)
          /\ UNCHANGED result
       \/ /\ Len(context_symbols) > 0
          /\ graph[helper].kind = "value"
          /\ calls' = Append(calls, <<helper, context_symbols>>)
          /\ IF DOMAIN graph[helper].value # {}
             THEN result' = [result EXCEPT ![field] = graph[helper].value,
                                           !.has_data = TRUE]
             ELSE UNCHANGED result
    /\ context_pc' = next_pc
    /\ UNCHANGED <<context_outcome, context_symbols, sectors, graph, sector_index,
                   context_ret>>
    /\ UNCHANGED <<sharpeVars, providerVars, techVars, screenVars, formatVars>>

ContextNotes ==
    /\ context_pc = "notes"
    /\ BatchLookup("notes", "symbol_notes", "themes")

ContextThemes ==
    /\ context_pc = "themes"
    /\ BatchLookup("themes", "symbol_themes", "return")

\* line 107
ContextReturn ==
    /\ context_pc = "return"
    /\ context_ret' = result
    /\ context_outcome' = "returned"
    /\ context_pc' = "done"
    /\ UNCHANGED <<context_symbols, sectors, graph, sector_index, result, calls>>
    /\ UNCHANGED <<sharpeVars, providerVars, techVars, screenVars, formatVars>>

InitContext ==
    SharpeStart /\ ProviderStart(Missing) /\ TechStart /\ CallerStart

NextContext ==
    \/ ContextCall
    \/ ContextImport
    \/ ContextSector
    \/ ContextSectorsDone
    \/ ContextNotes
    \/ ContextThemes
    \/ ContextReturn

SpecContext == InitContext /\ [][NextContext]_vars

\* ------------------------------------------------------------------ claims

\* compute_full_sharpe_score has returned (a result or None)
Returned ==
    fn = "compute_full_sharpe_score" /\ pc = "done" /\ outcome \in {"absent", "result"}

\* count_conditions_passed has returned inside compute_full_sharpe_score
Counted ==
    (fn = "compute_full_sharpe_score" /\ pc = "step5") \/ Returned

\* compute_full_sharpe_score is at one of the steps, or has returned
At(steps) == (fn = "compute_full_sharpe_score" /\ pc \in steps) \/ Returned

HelperReturned(f) == fn = f /\ pc = "done"

OrZero(v) == IF IsNone(v) THEN Zero ELSE v

\* C1: compute_full_sharpe_score returns None exactly when two or fewer of the
\* four conditions pass; with three the multiplier of the result is 0.8, with
\* four it is 1.0; calculate_condition_multiplier maps every count >= 4 to 1.0,
\* 3 to 0.8 and every count <= 2 to None.
C1_MultiplierMapping ==
    /\ Returned =>
        LET n == Cardinality({c \in FourConditions : condition_details[c]})
        IN  /\ (outcome = "absent") <=> (n <= 2)
            /\ outcome = "absent" => IsNone(ret)
            /\ n = 3 => ret.condition_multiplier = Rat(8, 10)
            /\ n = 4 => ret.condition_multiplier = One
    /\ HelperReturned("calculate_condition_multiplier") =>
        /\ args[1] >= 4 => ret = One
        /\ args[1] = 3 => ret = Rat(8, 10)
        /\ args[1] <= 2 => IsNone(ret)

C1_Witness ==
    /\ Returned
    /\ outcome = "result"
    /\ Cardinality({c \in FourConditions : condition_details[c]}) = 3
    /\ ret.condition_multiplier = Rat(8, 10)

\* C2: in every result of compute_full_sharpe_score, final_score is
\* adjusted_sr * condition_multiplier when adjusted_sr is present and None when
\* adjusted_sr is None.
C2_FinalScore ==
    (Returned /\ outcome = "result") =>
        IF IsNone(ret.adjusted_sr)
        THEN IsNone(ret.final_score)
        ELSE ret.final_score = RMul(ret.adjusted_sr, ret.condition_multiplier)

C2_Witness ==
    /\ Returned
    /\ outcome = "result"
    /\ ~IsNone(ret.adjusted_sr)
    /\ ret.adjusted_sr # ret.raw_sr
    /\ ret.condition_multiplier = Rat(8, 10)
    /\ ret.final_score = RMul(ret.adjusted_sr, Rat(8, 10))
    /\ ret.final_score # RMul(ret.raw_sr, Rat(8, 10))

\* C3: calculate_adjusted_sr returns None exactly when hv30 is None or <= 0,
\* whatever the other arguments are; in compute_full_sharpe_score raw_sr and
\* adjusted_sr are None together, under that same condition.
C3_AdjustedSrAbsent ==
    /\ HelperReturned("calculate_adjusted_sr") =>
        (IsNone(ret) <=> (IsNone(args[3]) \/ RLe(args[3], Zero)))
    /\ (fn = "compute_full_sharpe_score" /\ pc \in {"step4", "step5", "done"}) =>
        /\ IsNone(raw_sr) <=> IsNone(adjusted_sr)
        /\ IsNone(raw_sr) <=> (IsNone(hv30) \/ RLe(hv30, Zero))

C3_Witness ==
    /\ HelperReturned("calculate_adjusted_sr")
    /\ args[3] = Zero
    /\ ~IsNone(args[4]) /\ ~IsNone(args[5]) /\ ~IsNone(args[6])
    /\ IsNone(ret)

\* C4: for hv30 > 0, calculate_adjusted_sr is raw_sr * vol_trend * asymmetry
\* with vol_trend = hv90 / hv30 when hv90 is present and 1 otherwise, asymmetry
\* = min(upside_vol / downside_vol, 2) when both are present and downside_vol
\* > 0 and 1 otherwise; asymmetry never exceeds 2, and with hv90 and one of
\* upside_vol, downside_vol missing the value is raw_sr.
C4_AdjustedSrFormula ==
    (/\ HelperReturned("calculate_adjusted_sr")
     /\ ~IsNone(args[3])
     /\ RLt(Zero, args[3])) =>
        LET er == args[1]
            r == args[2]
            h30 == args[3]
            h90 == args[4]
            up == args[5]
            down == args[6]
            raw == RDiv(RSub(er, r), RMul(h30, Rat(8, 10)))
            trend == IF IsNone(h90) THEN One ELSE RDiv(h90, h30)
            asym == IF IsNone(up) \/ IsNone(down) THEN One
                    ELSE IF RLe(down, Zero) THEN One
                    ELSE IF RLt(Rat(2, 1), RDiv(up, down)) THEN Rat(2, 1)
                    ELSE RDiv(up, down)
        IN  /\ ret = RMul(RMul(raw, trend), asym)
            /\ RLe(asym, Rat(2, 1))
            /\ (IsNone(h90) /\ (IsNone(up) \/ IsNone(down))) => ret = raw

C4_Witness ==
    /\ HelperReturned("calculate_adjusted_sr")
    /\ args[1] = Rat(14, 100) /\ args[2] = DEFAULT_RF
    /\ args[3] = Rat(1, 5) /\ args[4] = Rat(1, 10)
    /\ args[5] = Rat(1, 2) /\ args[6] = Rat(1, 10)
    /\ ret = RMul(RMul(RDiv(Rat(135, 1000), Rat(16, 100)), Rat(1, 2)), Rat(2, 1))

\* C5: the expected_return of compute_full_sharpe_score is the sum of
\* eps_growth, dividend_yield and fcf_yield (None counted as 0) capped at 1.0,
\* so it is at most 1.0; the cap is applied before raw_sr and adjusted_sr are
\* computed, so both use the capped value; calculate_expected_return itself
\* returns the uncapped sum.
C5_ExpectedReturnCap ==
    /\ At({"step3", "step4", "step5"}) =>
        /\ RLe(expected_return, One)
        /\ expected_return =
               RMin(RAdd(RAdd(OrZero(eps_growth), OrZero(dividend_yield)),
                         OrZero(fcf_yield)), One)
    /\ (At({"step4", "step5"}) /\ ~IsNone(raw_sr)) =>
            /\ raw_sr = RDiv(RSub(expected_return, rf), RMul(hv30, Rat(8, 10)))
            /\ adjusted_sr = RMul(RMul(raw_sr, vol_trend(hv30, hv90)),
                                  asymmetry(upside_vol, downside_vol))
    /\ (Returned /\ outcome = "result") =>
        /\ ret.expected_return = expected_return
        /\ RLe(ret.expected_return, One)
    /\ HelperReturned("calculate_expected_return") =>
        ret = RAdd(RAdd(OrZero(args[1]), OrZero(args[2])), OrZero(args[3]))

C5_Witness ==
    /\ Returned
    /\ outcome = "result"
    /\ RLt(One, RAdd(RAdd(OrZero(eps_growth), OrZero(dividend_yield)), OrZero(fcf_yield)))
    /\ ret.expected_return = One
    /\ ret.raw_sr = RDiv(RSub(One, rf), RMul(hv30, Rat(8, 10)))

C7_ConditionCount ==
    Counted =>
        /\ DOMAIN condition_details = FourConditions \cup {"catalyst"}
        /\ \A c \in FourConditions : condition_details[c] \in BOOLEAN
        /\ IsNone(condition_details["catalyst"])
        /\ conditions_passed = Cardinality({c \in FourConditions : condition_details[c]})
        /\ conditions_passed \in 0..4

C7_Witness ==
    /\ fn = "compute_full_sharpe_score"
    /\ pc = "step5"
    /\ conditions_passed = 4
    /\ \A c \in FourConditions : condition_details[c]
    /\ IsNone(condition_details["catalyst"])

\* every one of the names is missing from d or holds None
AbsentIn(d, names) == \A k \in names : IsNone(Get(d, k))

\* C8: each of the four conditions is false when a field it requires is
\* absent: hv30; PER or PBR; equity_ratio, operating cash flow, net income or
\* free cash flow; eps_growth, revenue_growth or ROE.
C8_AbsentFieldFails ==
    /\ HelperReturned("check_low_volatility") => (IsNone(args[1]) => ret = FALSE)
    /\ HelperReturned("check_undervalued") =>
        ((IsNone(args[1]) \/ IsNone(args[2])) => ret = FALSE)
    /\ HelperReturned("check_financial_stability") =>
        ((\E i \in 1..4 : IsNone(args[i])) => ret = FALSE)
    /\ HelperReturned("check_eps_growth") =>
        ((\E i \in 1..3 : IsNone(args[i])) => ret = FALSE)
    /\ Counted =>
        LET d == stock_detail_with_hv
        IN  /\ AbsentIn(d, {"hv30"}) => ~condition_details["low_volatility"]
            /\ (AbsentIn(d, {"trailingPE", "per"}) \/ AbsentIn(d, {"priceToBook", "pbr"}))
                   => ~condition_details["undervalued"]
            /\ (\/ AbsentIn(d, {"equity_ratio"})
                \/ AbsentIn(d, {"operating_cashflow", "operatingCashflow"})
                \/ AbsentIn(d, {"net_income_stmt", "netIncome", "net_income"})
                \/ AbsentIn(d, {"fcf", "free_cashflow", "freeCashflow"}))
                   => ~condition_details["financial_stability"]
            /\ (\/ AbsentIn(d, {"earningsGrowth", "eps_growth"})
                \/ AbsentIn(d, {"revenueGrowth", "revenue_growth"})
                \/ AbsentIn(d, {"returnOnEquity", "roe"}))
                   => ~condition_details["eps_growth"]

C8_Witness ==
    /\ Counted
    /\ AbsentIn(stock_detail_with_hv, {"trailingPE", "per"})
    /\ ~AbsentIn(stock_detail_with_hv, {"priceToBook", "pbr"})
    /\ ~condition_details["undervalued"]
    /\ conditions_passed = 3

\* the first of two values that is not None
FirstPresent(a, b) == IF ~IsNone(a) THEN a ELSE b

\* C9: without a supplied fcf_yield, compute_full_sharpe_score derives
\* fcf_yield as free cash flow / market cap whenever both are present and
\* market cap > 0, for every free cash flow (0 and negative values included),
\* and reports None otherwise; a supplied fcf_yield is used unchanged.
C9_FcfYieldDerived ==
    At({"step7", "step3", "step4", "step5"}) =>
        LET provided == Get(stock_detail, "fcf_yield")
            cash == FirstPresent(Get(stock_detail, "fcf"), Get(stock_detail, "free_cashflow"))
            cap == Get(stock_detail, "market_cap")
        IN  IF ~IsNone(provided) THEN fcf_yield = provided
            ELSE IF ~IsNone(cash) /\ ~IsNone(cap) /\ RLt(Zero, cap)
            THEN fcf_yield = RDiv(cash, cap)
            ELSE IsNone(fcf_yield)

\* C10: compute_full_sharpe_score never raises for a snapshot in which any
\* subset of the optional fields is missing or holds None.
C10_NeverRaises ==
    fn = "compute_full_sharpe_score" => outcome # "raised"

\* the snapshot carries no price history: the key is missing or the list is empty
NoPriceHistory(sd) ==
    LET price_history == GetDefault(sd, "price_history", List(<<>>))
    IN  ~IsNone(price_history) /\ Len(Items(price_history)) = 0

C12_HvTail ==
    HelperReturned("calculate_hv") =>
        LET close_prices == args[1]
            window == args[2]
            short == Len(close_prices) < window + 1
            absent == short \/ \E i \in 1..(window + 1) :
                                  LastN(close_prices, window + 1)[i] <= 0
        IN  /\ IsNone(ret) <=> absent
            /\ ~absent =>
                   /\ RLe(Zero, ret)
                   /\ \A other \in Histories :
                          (/\ Len(other) >= window + 1
                           /\ LastN(other, window + 1) = LastN(close_prices, window + 1))
                          => calculate_hv(other, window) = ret

\* a present value for a list that has a non-positive price before the window
C12_Witness ==
    /\ HelperReturned("calculate_hv")
    /\ ~IsNone(ret)
    /\ RLt(Zero, ret)
    /\ Len(args[1]) > args[2] + 1
    /\ args[1][1] <= 0

\* loading the resource fails: open() or yaml.safe_load raises
LoadFails == resource.kind \in {"missing", "unreadable", "malformed"}

\* C18: when loading the threshold configuration fails (missing file,
\* unreadable file, parse error) no call raises, the cache becomes the empty
\* configuration, and every th(section, key, default) returns its default.
C18_LoadFailureGivesDefaults ==
    LoadFails =>
        /\ _THRESHOLDS \in {PyNone, PyDict(EmptyDict)}
        /\ \A t \in Tasks :
            /\ task_pc[t] # "raised"
            /\ task_pc[t] \in {"lookup", "returned"} => _THRESHOLDS = PyDict(EmptyDict)
            /\ task_pc[t] = "returned" => task_ret[t] = task_call[t][3]

C18_Witness ==
    /\ resource = Malformed
    /\ reads >= 1
    /\ _THRESHOLDS = PyDict(EmptyDict)
    /\ \E t \in Tasks : task_pc[t] = "returned" /\ task_ret[t] = Rat(0 - 20, 100)

\* the loaded document defines a value for (section, key)
Defines(document, section, key) ==
    /\ document.kind = "dict"
    /\ section \in DOMAIN document.value
    /\ document.value[section].kind = "dict"
    /\ key \in DOMAIN document.value[section].value

\* C19: for every content the resource loads as, th(section, key, default)
\* never raises, and returns the caller's default whenever the document does
\* not define a value for (section, key).
C19_ThNeverRaises ==
    \A t \in Tasks :
        /\ task_pc[t] # "raised"
        /\ (/\ task_pc[t] = "returned"
            /\ resource.kind = "document"
            /\ ~Defines(resource.value, task_call[t][1], task_call[t][2]))
           => task_ret[t] = task_call[t][3]

\* C20: the resource is read at most once per process, also when several
\* tasks make their first lookup at the same time.
C20_ReadAtMostOnce ==
    reads <= 1

\* detect_pullback_in_uptrend has returned a report
TechReported == tech_pc = "done" /\ tech_outcome = "report"

\* it has returned the report of a full analysis
FullReport == TechReported /\ Len(hist.Close) >= 200

\* C13: for a series of fewer than 200 bars detect_pullback_in_uptrend returns
\* the default report without raising, computing no indicator and reading no
\* threshold: the four booleans false, pullback_pct and bounce_score 0, all
\* five flags false with lookback_day 0, and rsi, volume_ratio, sma50, sma200,
\* current_price and recent_high NaN; with exactly 200 bars the indicators are
\* computed.
C13_ShortSeriesDefault ==
    /\ (tech_pc # "idle" /\ Len(hist.Close) < 200) =>
        /\ tech_outcome # "raised"
        /\ tech_pc \in {"start", "done"}
        /\ rsi_series = <<>>
        /\ IsNone(current_price) /\ IsNone(current_sma50) /\ IsNone(current_sma200)
        /\ IsNone(volume_ratio) /\ IsNone(recent_high) /\ IsNone(pullback_pct)
        /\ _THRESHOLDS = PyNone /\ reads = 0
        /\ tech_pc = "done" =>
            /\ tech_outcome = "report"
            /\ ~report.uptrend /\ ~report.is_pullback
            /\ ~report.bounce_signal /\ ~report.all_conditions
            /\ report.pullback_pct = Zero /\ report.bounce_score = Zero
            /\ \A f \in Flags : ~report.bounce_details[f]
            /\ report.bounce_details.lookback_day = 0
            /\ IsNaN(report.rsi) /\ IsNaN(report.volume_ratio)
            /\ IsNaN(report.sma50) /\ IsNaN(report.sma200)
            /\ IsNaN(report.current_price) /\ IsNaN(report.recent_high)
    /\ (tech_pc \in {"conditions", "scan", "done"} /\ Len(hist.Close) = 200) =>
        /\ Len(rsi_series) = 200
        /\ ~IsNaN(current_sma50) /\ ~IsNaN(current_sma200)
        /\ current_price = Rat(hist.Close[200], 1)
        /\ TechReported => report.current_price = current_price

C13_Witness ==
    /\ TechReported
    /\ Len(hist.Close) = 199
    /\ IsNaN(report.sma200)
    /\ ~report.all_conditions

\* the score and the flags of the day `back` bars before the last one
DayDetails(back) == day_details_of(hist.Close, hist.Volume, rsi_series, params, back)
DayScore(back) == day_score_of(DayDetails(back), params)

RMax(a, b) == IF RLt(a, b) THEN b ELSE a

RECURSIVE BestOfDays(_)
\* the largest day score among the offsets 0 .. k-1, and 0 if there is none
\* or none is positive
BestOfDays(k) == IF k = 0 THEN Zero ELSE RMax(BestOfDays(k - 1), DayScore(k - 1))

RECURSIVE MaxDayScore(_)
\* the largest day score among the offsets 0 .. k (k >= 0)
MaxDayScore(k) == IF k = 0 THEN DayScore(0) ELSE RMax(MaxDayScore(k - 1), DayScore(k))

\* C14: under the point values the threshold provider supplies, the reported
\* bounce_score is in [0, 100] and equals the maximum over the 5 lookback days
\* of the day's score.
C14_BounceScoreRange ==
    FullReport =>
        /\ RLe(Zero, report.bounce_score)
        /\ RLe(report.bounce_score, Rat(100, 1))
        /\ bounce_score = MaxDayScore(4)

\* the smallest offset below k whose day score is v
FirstDayWith(v, k) == CHOOSE d \in 0..(k - 1) :
    /\ DayScore(d) = v
    /\ \A e \in 0..(d - 1) : DayScore(e) # v

\* C15 as stated: the reported lookback_day is the smallest offset whose day
\* score equals the maximum of the five day scores, and the reported flags
\* are those of that day.
C15_MostRecentMaximum ==
    FullReport =>
        LET d == FirstDayWith(MaxDayScore(4), 5)
        IN  bounce_details = WithLookbackDay(DayDetails(d), d)

\* C15, amended: the scan visits the offsets 0, 1, 2, 3, 4 in that order,
\* starting from a best score of 0 with all flags false and lookback_day 0,
\* and replaces the best day only on a strictly greater score: after k
\* iterations, if some day among the offsets below k scores above 0, the
\* lookback_day is the smallest of these offsets whose score is their maximum
\* and the flags are those of that day; if none scores above 0 the flags stay
\* false and lookback_day stays 0.
C15_MostRecentPositiveMaximum ==
    ((tech_pc = "scan" \/ FullReport) /\ tech_outcome # "raised") =>
        LET best == BestOfDays(offset)
        IN  /\ offset \in 0..5
            /\ FullReport => offset = 5
            /\ bounce_score = best
            /\ IF RLt(Zero, best)
               THEN LET d == FirstDayWith(best, offset)
                    IN  bounce_details = WithLookbackDay(DayDetails(d), d)
               ELSE bounce_details = WithLookbackDay(NoFlags, 0)
            /\ FullReport => report.bounce_details = bounce_details

\* two days tie for the maximum and the more recent one, not the last bar, is reported
C15_Witness ==
    /\ FullReport
    /\ RLt(Zero, bounce_score)
    /\ bounce_details.lookback_day > 0
    /\ \E later \in 0..4 :
        /\ later > bounce_details.lookback_day
        /\ DayScore(later) = bounce_score

\* the value the threshold file gives for a key of its technicals section, or
\* the default written at the call site
Configured(key) ==
    IF resource.kind = "document" /\ Defines(resource.value, "technicals", key)
    THEN resource.value.value["technicals"].value[key]
    ELSE ParamDefaults[key]

\* C16: in every report for a series of at least 200 bars, all_conditions is
\* true exactly when close > sma200, sma50 > sma200, pullback_min <=
\* pullback_pct <= pullback_max (defaults -0.20 and -0.05) and the best bounce
\* score >= bounce_signal_min (default 40); and all_conditions = uptrend AND
\* is_pullback AND bounce_signal.
C16_AllConditions ==
    FullReport =>
        /\ report.all_conditions <=>
            /\ RLt(current_sma200, current_price)
            /\ RLt(current_sma200, current_sma50)
            /\ RLe(Configured("pullback_min"), pullback_pct)
            /\ RLe(pullback_pct, Configured("pullback_max"))
            /\ RLe(Configured("bounce_signal_min"), bounce_score)
        /\ report.all_conditions <=>
            (report.uptrend /\ report.is_pullback /\ report.bounce_signal)
        /\ resource = Missing =>
            /\ Configured("pullback_min") = Rat(0 - 20, 100)
            /\ Configured("pullback_max") = Rat(0 - 5, 100)
            /\ Configured("bounce_signal_min") = Rat(40, 1)

\* all three conditions hold under a threshold file that moves the bounds
C16_Witness ==
    /\ FullReport
    /\ resource = Document(HeavyTechnicals)
    /\ report.all_conditions
    /\ report.uptrend /\ report.is_pullback /\ report.bounce_signal

\* C17: at every position with at least `period` observations the RSI is in
\* [0, 100] when the smoothed average loss is > 0 and equals 100 when the
\* smoothed average loss is 0, whatever the smoothed average gain.
C17_RsiRange ==
    (tech_pc = "conditions") =>
        LET avg_loss == ewm_mean(loss(hist.Close), Len(hist.Close), RsiPeriod)
        IN  \A i \in RsiPeriod..Len(hist.Close) :
                /\ avg_loss[i] > 0 =>
                    (FLe(Zero, rsi_series[i]) /\ FLe(rsi_series[i], Rat(100, 1)))
                /\ avg_loss[i] = 0 => rsi_series[i] = Rat(100, 1)

\* ---------------------------------------- screening_summary_formatter.py
\*
\* A str is the sequence of its parts: a literal of the source is one part, a
\* character of the data is one part, so "" is <<>>, + is \o and len counts
\* the characters of a data text.  The literals are written in ASCII.  A dict
\* whose items are iterated is the sequence of its <<key, value>> items, in
\* insertion order.

Lit(text) == <<text>>

NEWLINE == Lit("\n")
SEPARATOR == Lit("---")
HEADER == Lit("### graph context (from the knowledge graph)")
SECTOR_TREND == Lit(" sector trend**")
POSITIVE == Lit("- positive: ")
NEGATIVE == Lit("- negative: ")
COMMA == Lit(", ")
THEME == Lit("**themes (")
MEMO == Lit("**memo (")
CLOSE == Lit(")**: ")
DASH == Lit(" - ")
SUMMARY_LABEL == Lit("AI summary**: ")
ELLIPSIS == Lit("...")

MaxCatalysts == 3
MaxNotes == 2
ContentMax == 80
ContentKept == 77

\* str.join
RECURSIVE join(_, _)
join(sep, parts) ==
    IF Len(parts) = 0 THEN <<>>
    ELSE IF Len(parts) = 1 THEN parts[1]
    ELSE parts[1] \o sep \o join(sep, Tail(parts))

\* str.strip
RECURSIVE lstrip(_)
lstrip(text) ==
    IF Len(text) > 0 /\ text[1] \in {" ", "\n"} THEN lstrip(Tail(text)) ELSE text

RECURSIVE rstrip(_)
rstrip(text) ==
    IF Len(text) > 0 /\ text[Len(text)] \in {" ", "\n"}
    THEN rstrip(SubSeq(text, 1, Len(text) - 1)) ELSE text

strip(text) == rstrip(lstrip(text))

\* dict.get(key, default)
GetOr(d, k, default) == IF k \in DOMAIN d THEN d[k] ELSE default

\* lines 8-14 and 65-67: _NOTE_TYPE_JP.get(type, type)
NOTE_TYPE_JP(type) ==
    IF type = <<"c", "o", "n", "c", "e", "r", "n">> THEN Lit("concern (jp)")
    ELSE IF type = <<"t", "h", "e", "s", "i", "s">> THEN Lit("thesis (jp)")
    ELSE type

\* variant of nothing_to_show that looks at has_data only
nothing_to_show_without_data(found, text) == ~found

\* line 33: not has_data and not llm_text
nothing_to_show(found, text) == ~found /\ Len(text) = 0

\* lines 40-49: the lines of one sector
sector_lines(sector, data) ==
    LET cats_pos == GetOr(data, "catalysts_pos", <<>>)
        cats_neg == GetOr(data, "catalysts_neg", <<>>)
    IN  <<Lit("**") \o sector \o SECTOR_TREND>>
        \o (IF Len(cats_pos) > 0
            THEN <<POSITIVE \o join(COMMA, first_n(cats_pos, MaxCatalysts))>> ELSE <<>>)
        \o (IF Len(cats_neg) > 0
            THEN <<NEGATIVE \o join(COMMA, first_n(cats_neg, MaxCatalysts))>> ELSE <<>>)
        \o <<(<<>>)>>

\* lines 39-49
RECURSIVE all_sector_lines(_)
all_sector_lines(items) ==
    IF Len(items) = 0 THEN <<>>
    ELSE sector_lines(items[1][1], items[1][2]) \o all_sector_lines(Tail(items))

\* lines 54-57
RECURSIVE theme_lines(_)
theme_lines(items) ==
    IF Len(items) = 0 THEN <<>>
    ELSE (IF Len(items[1][2]) > 0
          THEN <<THEME \o items[1][1] \o CLOSE \o join(COMMA, items[1][2])>> ELSE <<>>)
         \o theme_lines(Tail(items))

\* lines 65-75: the line of one note
note_line(symbol, note) ==
    LET note_type == NOTE_TYPE_JP(GetOr(note, "type", <<>>))
        content == GetOr(note, "content", <<>>)
        shown == IF Len(content) > ContentMax
                 THEN SubSeq(content, 1, ContentKept) \o ELLIPSIS ELSE content
        date_str == GetOr(note, "date", <<>>)
        date_part == IF Len(date_str) > 0 THEN Lit("(") \o date_str \o Lit(")") ELSE <<>>
    IN  MEMO \o symbol \o CLOSE \o note_type \o DASH \o shown \o date_part

\* lines 63-75
RECURSIVE note_lines(_)
note_lines(items) ==
    IF Len(items) = 0 THEN <<>>
    ELSE LET symbol == items[1][1]
             notes == first_n(items[1][2], MaxNotes)
         IN  [i \in 1..Len(notes) |-> note_line(symbol, notes[i])]
                 \o note_lines(Tail(items))

\* the texts of the arguments
LongText == [i \in 1..(ContentMax + 1) |-> "x"]
Semis == <<"s", "e", "m", "i">>
Chips == <<"A", "I">>
Demand == <<"d", "e", "m", "a", "n", "d">>
Tariff == <<"t", "a", "r", "i", "f", "f">>
Nvda == <<"N", "V", "D", "A">>

SectorResearchItems ==
    { <<>>,
      <<(<<Semis, [summaries |-> <<Demand>>, catalysts_pos |-> <<Demand, Chips, Semis, Tariff>>,
                   catalysts_neg |-> <<>>]>>)>>,
      <<(<<Semis, [summaries |-> <<>>, catalysts_pos |-> <<>>, catalysts_neg |-> <<Tariff>>]>>),
        (<<Chips, [summaries |-> <<Demand>>]>>)>> }

SymbolThemeItems ==
    { <<>>, <<(<<Nvda, <<Chips, Semis>> >>)>>, <<(<<Nvda, <<>> >>)>> }

SymbolNoteItems ==
    { <<>>,
      <<(<<Nvda, << [type |-> <<"c", "o", "n", "c", "e", "r", "n">>, content |-> LongText,
                     date |-> <<"2", "0", "2", "5">>],
                    [type |-> <<"m", "e", "m", "o">>, content |-> Tariff],
                    [type |-> <<"t", "h", "e", "s", "i", "s">>, content |-> Demand] >> >>)>> }

HasDataOptions == {<<>>, <<TRUE>>, <<FALSE>>}

\* the context dicts: has_data present or not, each mapping present or not
Contexts ==
    { [k \in ({"has_data"} \ (IF h = <<>> THEN {"has_data"} ELSE {}))
             \cup (IF present THEN {"sector_research", "symbol_themes", "symbol_notes"} ELSE {}) |->
          IF k = "has_data" THEN h[1]
          ELSE IF k = "sector_research" THEN r
          ELSE IF k = "symbol_themes" THEN t ELSE n] :
      h \in HasDataOptions, present \in BOOLEAN, r \in SectorResearchItems,
      t \in SymbolThemeItems, n \in SymbolNoteItems }

LlmTexts == { <<>>, Demand, <<" ">> \o Demand \o <<" ", "\n">>, <<" ", " ">> }

\* format_screening_summary(context, llm_text) is called
FormatCall ==
    /\ format_pc = "idle"
    /\ \E c \in Contexts, text \in LlmTexts :
        /\ context' = c
        /\ llm_text' = text
    /\ format_pc' = "open"
    /\ UNCHANGED <<lines, format_ret>>
    /\ UNCHANGED <<sharpeVars, providerVars, techVars, screenVars, contextVars>>

\* lines 32-36
FormatOpen ==
    /\ format_pc = "open"
    /\ LET found == GetOr(context, "has_data", FALSE)
       IN  IF nothing_to_show(found, llm_text)
           THEN /\ format_ret' = <<>>
                /\ format_pc' = "done"
                /\ UNCHANGED lines
           ELSE /\ lines' = <<SEPARATOR, HEADER, <<>> >>
                /\ format_pc' = "sectors"
                /\ UNCHANGED format_ret
    /\ UNCHANGED <<context, llm_text>>
    /\ UNCHANGED <<sharpeVars, providerVars, techVars, screenVars, contextVars>>

\* lines 39-49
FormatSectors ==
    /\ format_pc = "sectors"
    /\ lines' = lines \o all_sector_lines(GetOr(context, "sector_research", <<>>))
    /\ format_pc' = "themes"
    /\ UNCHANGED <<context, llm_text, format_ret>>
    /\ UNCHANGED <<sharpeVars, providerVars, techVars, screenVars, contextVars>>

\* lines 52-58
FormatThemes ==
    /\ format_pc = "themes"
    /\ LET themes_map == GetOr(context, "symbol_themes", <<>>)
       IN  lines' = IF Len(themes_map) > 0
                    THEN lines \o theme_lines(themes_map) \o <<(<<>>)>> ELSE lines
    /\ format_pc' = "notes"
    /\ UNCHANGED <<context, llm_text, format_ret>>
    /\ UNCHANGED <<sharpeVars, providerVars, techVars, screenVars, contextVars>>

\* lines 61-76
FormatNotes ==
    /\ format_pc = "notes"
    /\ LET notes_map == GetOr(context, "symbol_notes", <<>>)
       IN  lines' = IF Len(notes_map) > 0
                    THEN lines \o note_lines(notes_map) \o <<(<<>>)>> ELSE lines
    /\ format_pc' = "summary"
    /\ UNCHANGED <<context, llm_text, format_ret>>
    /\ UNCHANGED <<sharpeVars, providerVars, techVars, screenVars, contextVars>>

\* lines 79-81
FormatSummary ==
    /\ format_pc = "summary"
    /\ lines' = IF Len(llm_text) > 0
                THEN lines \o <<SUMMARY_LABEL \o strip(llm_text), <<>> >> ELSE lines
    /\ format_pc' = "return"
    /\ UNCHANGED <<context, llm_text, format_ret>>
    /\ UNCHANGED <<sharpeVars, providerVars, techVars, screenVars, contextVars>>

\* line 83
FormatReturn ==
    /\ format_pc = "return"
    /\ format_ret' = join(NEWLINE, lines)
    /\ format_pc' = "done"
    /\ UNCHANGED <<context, llm_text, lines>>
    /\ UNCHANGED <<sharpeVars, providerVars, techVars, screenVars, contextVars>>

InitFormat ==
    SharpeStart /\ ProviderStart(Missing) /\ TechStart /\ CallerStart

NextFormat ==
    \/ FormatCall
    \/ FormatOpen
    \/ FormatSectors
    \/ FormatThemes
    \/ FormatNotes
    \/ FormatSummary
    \/ FormatReturn

SpecFormat == InitFormat /\ [][NextFormat]_vars

\* C28: compute_full_sharpe_score leaves the caller's stock_detail and
\* thresholds unchanged; the hv30 it computes from the price history is put
\* into a copy of the snapshot, and that computed value, not an hv30 the
\* caller supplied, is the one condition 1 tests and the one in the result.
C28_CallerMappingsUnchanged ==
    [][fn' = "compute_full_sharpe_score" =>
        LET computed == calculate_hv(Items(GetDefault(stock_detail', "price_history", List(<<>>))),
                                     Window30)
            hv_threshold == GetDefault(thresholds', "hv_threshold", Rat(25, 100))
        IN  /\ pc # "idle" => (stock_detail' = stock_detail /\ thresholds' = thresholds)
            /\ (pc' \in {"step2", "step7", "step3", "step4", "step5"}) =>
                /\ hv30' = computed
                /\ stock_detail_with_hv' = Put(stock_detail', "hv30", computed)
            /\ (pc' = "step5" \/ (pc' = "done" /\ outcome' # "raised")) =>
                condition_details'.low_volatility =
                    check_low_volatility(computed, hv_threshold)
            /\ (pc' = "done" /\ outcome' = "result") =>
                /\ ret'.hv30 = computed
                /\ ret'.condition_details = condition_details'
    ]_vars

\* a result whose snapshot carried an hv30 above the limit while the computed
\* one is below it: condition 1 passed, and the snapshot still holds its own
C28_Witness ==
    /\ Returned /\ outcome = "result"
    /\ Get(stock_detail, "hv30") = Rat(1, 2)
    /\ ret.hv30 # Rat(1, 2)
    /\ ret.condition_details.low_volatility
    /\ stock_detail_with_hv # stock_detail

\* C30: the EPS growth added into expected_return is the EPS growth condition
\* 4 compares against 0.05, for every snapshot.
C30_SameEpsGrowth ==
    Counted => eps_growth = condition_eps_growth(stock_detail_with_hv)

\* C25: rounding never affects a decision of detect_pullback_in_uptrend:
\* uptrend, is_pullback and bounce_signal are computed from the unrounded
\* close, averages, pullback_pct and bounce_score, and the reported
\* pullback_pct (4 places), bounce_score and prices (2 places) are rounded
\* only in the report; a depth beyond an interval bound is not a pullback
\* even when the reported depth is inside the interval.
C25_DecisionsUnrounded ==
    FullReport =>
        /\ report.uptrend <=>
            (FLt(current_sma200, current_price) /\ FLt(current_sma200, current_sma50))
        /\ report.is_pullback <=>
            /\ RLe(params.pullback_min, pullback_pct)
            /\ RLe(pullback_pct, params.pullback_max)
            /\ FLt(current_sma200, current_price)
        /\ report.bounce_signal <=> RLe(params.bounce_signal_min, bounce_score)
        /\ report.pullback_pct = round(pullback_pct, 4)
        /\ report.bounce_score = round(bounce_score, 2)
        /\ report.sma50 = round(current_sma50, 2)
        /\ report.sma200 = round(current_sma200, 2)
        /\ report.current_price = round(current_price, 2)
        /\ report.recent_high = round(recent_high, 2)

\* the depth -19/197 lies below pullback_min = -0.0964 and is reported as
\* -0.0964: not a pullback, although the reported depth is inside the interval
C25_Witness ==
    /\ FullReport
    /\ resource = Document(TightPullbackMin)
    /\ pullback_pct = Rat(0 - 19, 197)
    /\ report.pullback_pct = Rat(0 - 964, 10000)
    /\ RLe(params.pullback_min, report.pullback_pct)
    /\ RLe(report.pullback_pct, params.pullback_max)
    /\ RLt(current_sma200, current_price)
    /\ ~report.is_pullback

\* the depth -16/166 lies above the same bound and is reported as the same
\* -0.0964: a pullback
C25_WitnessOtherSide ==
    /\ FullReport
    /\ resource = Document(TightPullbackMin)
    /\ pullback_pct = Rat(0 - 16, 166)
    /\ report.pullback_pct = Rat(0 - 964, 10000)
    /\ report.is_pullback

\* C26: in every report pullback_pct <= 0: recent_high >= current close
\* whenever recent_high > 0, pullback_pct is 0 when recent_high <= 0, and
\* is_pullback is never true when pullback_min is configured above 0.
C26_PullbackNeverPositive ==
    /\ TechReported => RLe(report.pullback_pct, Zero)
    /\ FullReport =>
        /\ RLt(Zero, params.pullback_min) => ~report.is_pullback
        /\ RLe(pullback_pct, Zero)
        /\ RLt(Zero, recent_high) => RLe(current_price, recent_high)
        /\ RLe(recent_high, Zero) => pullback_pct = Zero
        /\ recent_high = Rat(recent_high_of(hist.Close), 1)

\* a report at a new high, price above the 200-day average, under a
\* pullback interval configured above 0
C26_Witness ==
    /\ FullReport
    /\ resource = Document(PositivePullback)
    /\ RLt(Zero, params.pullback_min)
    /\ current_price = recent_high
    /\ RLt(current_sma200, current_price)
    /\ report.pullback_pct = Zero
    /\ ~report.is_pullback

\* C27: after every iteration of the scan and in the final report, the
\* unrounded bounce_score is the sum of the configured points of exactly the
\* flags true in bounce_details, and score and flags are those of the single
\* day lookback_day; when no day scores above 0 the score is 0, the flags
\* are false and lookback_day is 0.
C27_ScoreMatchesFlags ==
    ((tech_pc = "scan" \/ FullReport) /\ tech_outcome # "raised") =>
        LET day == bounce_details.lookback_day
        IN  /\ bounce_score = day_score_of(bounce_details, params)
            /\ RLt(Zero, BestOfDays(offset)) =>
                /\ day \in 0..(offset - 1)
                /\ bounce_score = DayScore(day)
                /\ \A f \in Flags : bounce_details[f] = DayDetails(day)[f]
            /\ ~RLt(Zero, BestOfDays(offset)) =>
                /\ bounce_score = Zero
                /\ \A f \in Flags : ~bounce_details[f]
                /\ day = 0
            /\ FullReport =>
                /\ report.bounce_details = bounce_details
                /\ report.bounce_score = round(bounce_score, 2)

\* the best day is not the last bar and satisfied several sub-conditions
C27_Witness ==
    /\ FullReport
    /\ bounce_details.lookback_day > 0
    /\ Cardinality({f \in Flags : bounce_details[f]}) >= 3
    /\ bounce_score = day_score_of(bounce_details, params)
    /\ RLt(Rat(40, 1), bounce_score)

\* the limits of the Sharpe framework
FrameworkLimits ==
    [hv_threshold |-> Rat(25, 100), per_max |-> Rat(15, 1), pbr_max |-> Rat(15, 10)]

\* screen has set its thresholds
ScreenPrepared == screen_pc \in {"loop", "done"}

\* the score result screen obtains for the i-th symbol (None without a detail)
ScreenResult(i) ==
    LET detail == yahoo_client[symbols[i]]
    IN  IF detail = None THEN None
        ELSE compute_full_sharpe_score(detail, market_thresholds, screen_rf).returned

\* C21: SharpeScreener.screen evaluates every instrument against a
\* low-volatility limit of 0.25, a PER maximum of 15.0 and a PBR maximum of
\* 1.5, whatever the market's threshold set holds: each instrument gets the
\* conditions it gets under exactly these limits.
C21_FrameworkLimitsUsed ==
    ScreenPrepared =>
        \A i \in 1..Len(symbols) :
            LET detail == yahoo_client[symbols[i]]
            IN  detail # None =>
                    ScreenResult(i) =
                        compute_full_sharpe_score(detail, FrameworkLimits, screen_rf).returned

\* the positions of the symbols that have a detail and a score result
Qualified == {i \in 1..Len(symbols) : ScreenResult(i) # None}

\* the position in symbols of the symbol of a returned entry
PositionOf(entry) == CHOOSE i \in 1..Len(symbols) : symbols[i] = entry.symbol

\* C22: screen returns at most top_n entries in non-increasing final_score
\* order, the highest-scoring among exactly the symbols that have a detail
\* and pass at least 3 conditions.
C22_TopRanked ==
    screen_pc = "done" =>
        /\ screen_outcome = "returned"
        /\ Len(screen_ret) <= top_n
        /\ Len(screen_ret) = top_n \/ Len(screen_ret) = Cardinality(Qualified)
        /\ \A j \in 1..Len(screen_ret) :
            /\ \E i \in Qualified : symbols[i] = screen_ret[j].symbol
            /\ screen_ret[j].final_score = ScreenResult(PositionOf(screen_ret[j])).final_score
            /\ screen_ret[j].conditions_passed >= 3
            /\ \A k \in 1..Len(screen_ret) :
                /\ k # j => screen_ret[k].symbol # screen_ret[j].symbol
                /\ j < k => ~RLt(screen_ret[j].final_score, screen_ret[k].final_score)
            /\ \A i \in Qualified :
                (\A k \in 1..Len(screen_ret) : screen_ret[k].symbol # symbols[i]) =>
                    ~RLt(screen_ret[j].final_score, ScreenResult(i).final_score)

\* get_screening_graph_context has returned with graph_query imported
ContextReturned ==
    context_pc = "done" /\ context_outcome = "returned" /\ graph.importable

\* the sectors of the argument that are queried, in order
RECURSIVE Queried(_)
Queried(secs) ==
    IF Len(secs) = 0 THEN <<>>
    ELSE (IF Falsy(secs[1]) THEN <<>> ELSE <<secs[1]>>) \o Queried(Tail(secs))

\* the research calls of the log, in order
RECURSIVE ResearchCalls(_)
ResearchCalls(log) ==
    IF Len(log) = 0 THEN <<>>
    ELSE (IF log[1][1] = "research" THEN <<log[1][2]>> ELSE <<>>) \o ResearchCalls(Tail(log))

\* a helper was called
Called(helper) == \E i \in 1..Len(calls) : calls[i][1] = helper

\* one of the two helpers raises for the sector
SectorFails(s) ==
    graph.sector[s].research.kind = "raise" \/ graph.sector[s].catalysts.kind = "raise"

\* the sector's summaries and catalysts, when neither helper raises
Produced(s) ==
    [summaries |-> summaries_of(graph.sector[s].research.value),
     catalysts_pos |-> catalysts_of(graph.sector[s].catalysts.value, "positive"),
     catalysts_neg |-> catalysts_of(graph.sector[s].catalysts.value, "negative")]

ProducedSomething(s) ==
    LET e == Produced(s)
    IN  Len(e.summaries) > 0 \/ Len(e.catalysts_pos) > 0 \/ Len(e.catalysts_neg) > 0

\* C23: get_screening_graph_context never propagates a failure of a graph
\* helper: a sector whose query raises loses only its own entry and every
\* other sector is still queried, in order; a failing notes lookup leaves
\* symbol_notes empty and the themes lookup is still made, and the other way
\* round; when graph_query cannot be imported the empty context is returned.
C23_HelperFailuresContained ==
    /\ context_outcome # "raised"
    /\ (context_pc = "done" /\ ~graph.importable) =>
        /\ context_outcome = "returned"
        /\ context_ret = empty_context
        /\ calls = <<>>
    /\ ContextReturned =>
        /\ ResearchCalls(calls) = Queried(sectors)
        /\ \A i \in 1..Len(sectors) :
            LET s == sectors[i]
            IN  ~Falsy(s) =>
                    IF SectorFails(s) THEN s \notin DOMAIN context_ret.sector_research
                    ELSE ProducedSomething(s) =>
                            /\ s \in DOMAIN context_ret.sector_research
                            /\ context_ret.sector_research[s] = Produced(s)
        /\ Len(context_symbols) > 0 =>
            /\ Called("notes") /\ Called("themes")
            /\ graph.notes.kind = "raise" => context_ret.symbol_notes = EmptyDict
            /\ graph.themes.kind = "raise" => context_ret.symbol_themes = EmptyDict
            /\ graph.notes.kind = "value" => context_ret.symbol_notes = graph.notes.value
            /\ graph.themes.kind = "value" => context_ret.symbol_themes = graph.themes.value

\* the first sector's query and the notes lookup raise; the second sector
\* and the themes are in the context
C23_Witness ==
    /\ ContextReturned
    /\ sectors = <<PyStr("BadSector"), PyStr("Technology")>>
    /\ graph.sector[PyStr("BadSector")].research.kind = "raise"
    /\ DOMAIN context_ret.sector_research = {PyStr("Technology")}
    /\ graph.notes.kind = "raise"
    /\ context_ret.symbol_notes = EmptyDict
    /\ DOMAIN context_ret.symbol_themes # {}
    /\ context_ret.has_data

\* the context being built, or the one returned
ContextBuilt == context_pc \in {"sectors", "notes", "themes", "return"} \/ ContextReturned

\* C29: has_data is true exactly when sector_research, symbol_notes or
\* symbol_themes is non-empty; a sector has an entry only if it produced a
\* summary or a catalyst; empty and None sector names are never queried and
\* never get an entry.
C29_HasDataIffContext ==
    /\ ContextBuilt =>
        /\ result.has_data <=>
            \/ DOMAIN result.sector_research # {}
            \/ DOMAIN result.symbol_notes # {}
            \/ DOMAIN result.symbol_themes # {}
        /\ \A s \in DOMAIN result.sector_research :
            /\ ~Falsy(s)
            /\ \/ Len(result.sector_research[s].summaries) > 0
               \/ Len(result.sector_research[s].catalysts_pos) > 0
               \/ Len(result.sector_research[s].catalysts_neg) > 0
        /\ \A i \in 1..Len(calls) :
            calls[i][1] \in {"research", "catalysts"} => ~Falsy(calls[i][2])
    /\ (context_pc = "done" /\ context_outcome = "returned") =>
        /\ context_ret.has_data <=>
            \/ DOMAIN context_ret.sector_research # {}
            \/ DOMAIN context_ret.symbol_notes # {}
            \/ DOMAIN context_ret.symbol_themes # {}
        /\ graph.importable => context_ret = result

\* a sector that answered with nothing and a None sector: no entry, no
\* query for None, and has_data true through the notes alone
C29_Witness ==
    /\ ContextReturned
    /\ sectors = <<PyStr("Technology"), None>>
    /\ ~SectorFails(PyStr("Technology"))
    /\ ~ProducedSomething(PyStr("Technology"))
    /\ context_ret.sector_research = EmptyDict
    /\ DOMAIN context_ret.symbol_notes # {}
    /\ context_ret.symbol_themes = EmptyDict
    /\ context_ret.has_data
    /\ Len(calls) = 4

\* the positions where a line of the text starts
LineStarts(text) ==
    {i \in 1..Len(text) : i = 1 \/ text[i - 1] = NEWLINE[1]}

\* the text has a line that starts with the label of the LLM summary
HasSummaryLine(text) ==
    \E i \in LineStarts(text) : text[i] = SUMMARY_LABEL[1]

\* has_data of the context argument is present and true
ContextHasData == "has_data" \in DOMAIN context /\ context["has_data"]

\* the context argument has a non-empty mapping
ContextHasEntries ==
    \E k \in {"sector_research", "symbol_themes", "symbol_notes"} :
        k \in DOMAIN context /\ Len(context[k]) > 0

\* C24: format_screening_summary returns "" exactly when has_data is false or
\* missing and llm_text is empty, whatever the three mappings contain;
\* otherwise the string returned begins with the separator line and the
\* header line, and it has the LLM summary line exactly when llm_text is
\* non-empty.
C24_EmptyIffNothingToShow ==
    format_pc = "done" =>
        /\ format_ret = <<>> <=> (~ContextHasData /\ llm_text = <<>>)
        /\ format_ret # <<>> =>
            /\ Len(format_ret) >= 4
            /\ SubSeq(format_ret, 1, 4) = SEPARATOR \o NEWLINE \o HEADER \o NEWLINE
            /\ HasSummaryLine(format_ret) <=> llm_text # <<>>

\* has_data false, no llm_text and non-empty mappings: "" is returned
C24_Witness ==
    /\ format_pc = "done"
    /\ "has_data" \in DOMAIN context /\ ~context["has_data"]
    /\ ContextHasEntries
    /\ llm_text = <<>>
    /\ format_ret = <<>>

\* has_data missing and a blank llm_text: header and summary line are returned
C24_WitnessSummary ==
    /\ format_pc = "done"
    /\ "has_data" \notin DOMAIN context
    /\ llm_text = <<" ", " ">>
    /\ format_ret = join(NEWLINE, <<SEPARATOR, HEADER, <<>>, SUMMARY_LABEL, <<>> >>)

====
